---- MODULE Spec2Model ----
(***************************************************************************)
(* Aggregation pipeline of the social-media feed:                          *)
(*   - SocialMediaService.getAllPosts (client cache + merge), in its two   *)
(*     source versions (src/src/services/socialMediaService.ts and         *)
(*     src/unnamed/part_001);                                              *)
(*   - the fetch-rss-feeds edge function (feed loop, retry, backoff), in   *)
(*     its two source versions (src/functions/fetch-rss-feeds/index.ts     *)
(*     lines 1-347 and lines 348-676).                                     *)
(* Times are milliseconds.  A post's date is a day number and its time a   *)
(* minute of the day; -1 stands for a date or time string that the Date    *)
(* parser does not accept.                                                 *)
(***************************************************************************)
EXTENDS Integers, Sequences, FiniteSets, TLC

VARIABLES
  svcVariant,    \* which source version of SocialMediaService runs
  now,           \* Date.now()
  cache,         \* SocialMediaService.cache : Map<string, {data, timestamp}>
  pc,            \* per call: position inside getAllPosts
  cached,        \* per call: local `cached` (<<>> = undefined, <<entry>>)
  twitterPosts,  \* per call: local `twitterPosts`
  rssPosts,      \* per call: local `rssPosts`
  allPosts,      \* per call: local `allPosts`
  hasAnyData,    \* per call: local `hasAnyData`
  result,        \* per call: outcome of the promise [threw, value]
  invoked,       \* per call: adapters invoked by this call (request log)
  received,      \* per call: local `response` of each adapter (<<>> = none)
  servedAt,      \* per call: timestamp of the cache entry the result is in
  path,          \* per call: which return statement produced the result
  startedAt,     \* per call: Date.now() read at line 129
  prev           \* what the caller holds from the call before (App state)

VARIABLES
  fnVariant,     \* which source version of the fetch-rss-feeds function runs
  fnPc,          \* position inside the serve handler
  feedIdx,       \* index of the feed of the for loop over RSS_FEEDS
  attempt,       \* fetchRSSFeedWithRetry: loop variable `attempt`
  lastError,     \* fetchRSSFeedWithRetry: local `lastError`
  lastFetch,     \* outcome of the latest fetchRSSFeed call [threw, value]
  tries,         \* this feed's fetchRSSFeed calls so far: TRUE = returned
  delays,        \* this feed's setTimeout delays so far
  finished,      \* how the latest fetchRSSFeedWithRetry call ended
  feeds,         \* per feed: what the serve loop got for it
  fnAllPosts,    \* serve handler: local `allPosts`
  fnResponse,    \* the Response of the handler (<<>> = none yet)
  request,       \* fetchRSSFeed: what the attempt in flight is awaiting
  pendingFor,    \* fetchRSSFeed: ms since the attempt in flight sent its request
  lastOutcome    \* what the feed server gave the latest attempt

VARIABLES
  bearerToken,   \* fetch-twitter-data: is TWITTER_BEARER_TOKEN set
  twPc,          \* position inside the serve handler of fetch-twitter-data
  twIdx,         \* index of the account of the for loop over accounts
  twAllPosts,    \* serve handler: local `allPosts`
  twLog,         \* requests sent to api.twitter.com by this invocation
  twGot,         \* per account: how its iteration ended and its posts
  twResponse     \* the Response of the handler (<<>> = none yet)

twVars == <<bearerToken, twPc, twIdx, twAllPosts, twLog, twGot, twResponse>>

VARIABLES
  qPosts,        \* the posts the presentation layer holds
  qOp,           \* the consumer function called last ("none" before any)
  qArg,          \* its argument besides the posts
  qOut           \* what it returned

qVars == <<qPosts, qOp, qArg, qOut>>

fnVars == <<fnVariant, fnPc, feedIdx, attempt, lastError, lastFetch, tries,
            delays, finished, feeds, fnAllPosts, fnResponse, request,
            pendingFor, lastOutcome>>

svcVars == <<svcVariant, now, cache, pc, cached, twitterPosts, rssPosts,
             allPosts, hasAnyData, result, invoked, received, servedAt, path,
             startedAt, prev>>

----------------------------------------------------------------------------
(* Bounds of the model *)

NumCalls == 1
MaxPeriods == 1
MaxStall == 1
MaxPosts == 2
MaxLimit == 3
MaxText == 4
MaxOverlap == 2

Calls == 1 .. NumCalls

----------------------------------------------------------------------------
(* Program constants *)

CACHE_DURATION == 5 * 60 * 1000
cacheKey == "all_posts"
MsPerMinute == 60000
MinutesPerDay == 1440
NaN == -1
InvalidDate == -1
Today == 20

ServiceVariants == {"socialMediaService.ts", "part_001"}

\* the instants the clock is observed at: every multiple of the TTL and the
\* millisecond before it
TimePoints ==
  { t \in { k * CACHE_DURATION + e : k \in 0 .. MaxPeriods, e \in {-1, 0} } : t >= 0 }

----------------------------------------------------------------------------
(* How a call ends: it returns v, or it throws *)

Return(v) == [threw |-> FALSE, value |-> v]
Throw == [threw |-> TRUE, value |-> <<>>]

----------------------------------------------------------------------------
(* Posts *)

Post(id, platform, category, date, time, len) ==
  [id |-> id, platform |-> platform, category |-> category,
   date |-> date, time |-> time, len |-> len]

\* new Date(p.date + ' ' + p.time).getTime(): NaN for a malformed string
GetTime(p) ==
  IF p.date = InvalidDate \/ p.time = InvalidDate \/ p.time >= MinutesPerDay
  THEN NaN
  ELSE (p.date * MinutesPerDay + p.time) * MsPerMinute

WellFormed(p) == GetTime(p) # NaN

\* the comparator with its operands exchanged: (a, b) => getTime(a) - getTime(b)
ComparatorAscending(a, b) ==
  IF GetTime(a) = NaN \/ GetTime(b) = NaN
  THEN [nan |-> TRUE, value |-> 0]
  ELSE [nan |-> FALSE, value |-> GetTime(a) - GetTime(b)]

\* (a, b) => getTime(b) - getTime(a); NaN when one operand is NaN
Comparator(a, b) ==
  IF GetTime(a) = NaN \/ GetTime(b) = NaN
  THEN [nan |-> TRUE, value |-> 0]
  ELSE [nan |-> FALSE, value |-> GetTime(b) - GetTime(a)]

\* stable insertion of x into the sorted sequence s: x goes after every
\* element it does not compare strictly before
RECURSIVE InsertSorted(_, _)
InsertSorted(s, x) ==
  IF s = <<>> THEN <<x>>
  ELSE LET last == s[Len(s)]
       IN IF Comparator(last, x).value > 0
          THEN Append(InsertSorted(SubSeq(s, 1, Len(s) - 1), x), last)
          ELSE Append(s, x)

RECURSIVE StableSort(_)
StableSort(s) ==
  IF s = <<>> THEN <<>>
  ELSE InsertSorted(StableSort(SubSeq(s, 1, Len(s) - 1)), s[Len(s)])

Perms(s) ==
  { [i \in 1 .. Len(s) |-> s[f[i]]] :
      f \in { g \in [1 .. Len(s) -> 1 .. Len(s)] :
                \A i, j \in 1 .. Len(s) : i # j => g[i] # g[j] } }

\* Array.prototype.sort(comparefn): a stable sort for a consistent
\* comparator; with a comparator that yields NaN the order is
\* implementation-defined (any permutation of the elements)
SortOutcomes(s) ==
  IF \E i, j \in 1 .. Len(s) : i # j /\ Comparator(s[i], s[j]).nan
  THEN Perms(s)
  ELSE {StableSort(s)}

----------------------------------------------------------------------------
(* Text.  A text is the sequence of its UTF-16 code units; a code unit is
   named by a string: an ASCII character by itself, a Turkish letter by a
   digraph ("I." is capital I with dot, "i-" dotless i, "s," s with cedilla,
   "c," c with cedilla, "g^" g with breve, "u:" and "o:" the umlauts, their
   capitals likewise), "^." the combining dot above, "TAB" the tab. *)

Range(s) == { s[i] : i \in DOMAIN s }

Chars(str) == [i \in 1 .. Len(str) |-> SubSeq(str, i, i)]

UpperAscii == Chars("ABCDEFGHIJKLMNOPQRSTUVWXYZ")
LowerAscii == Chars("abcdefghijklmnopqrstuvwxyz")
UpperTurkish == <<"S,", "C,", "G^", "U:", "O:">>
LowerTurkish == <<"s,", "c,", "g^", "u:", "o:">>
Digits == Chars("0123456789")

IndexOf(s, x) == CHOOSE i \in DOMAIN s : s[i] = x

\* String.prototype.toLowerCase of one code unit: capital I with dot
\* becomes i followed by the combining dot, I becomes i
LowerUnit(u) ==
  IF u \in Range(UpperAscii) THEN <<LowerAscii[IndexOf(UpperAscii, u)]>>
  ELSE IF u \in Range(UpperTurkish) THEN <<LowerTurkish[IndexOf(UpperTurkish, u)]>>
  ELSE IF u = "I." THEN <<"i", "^.">>
  ELSE <<u>>

RECURSIVE toLowerCase(_)
toLowerCase(t) ==
  IF t = <<>> THEN <<>> ELSE LowerUnit(Head(t)) \o toLowerCase(Tail(t))

\* the value of a code unit
CodeOf(u) ==
  IF u = "TAB" THEN 9
  ELSE IF u = " " THEN 32
  ELSE IF u = "-" THEN 45
  ELSE IF u \in Range(Digits) THEN 47 + IndexOf(Digits, u)
  ELSE IF u \in Range(UpperAscii) THEN 64 + IndexOf(UpperAscii, u)
  ELSE IF u \in Range(LowerAscii) THEN 96 + IndexOf(LowerAscii, u)
  ELSE 300

\* a < b on strings: by the first code unit that differs, a proper prefix
\* first
RECURSIVE Less(_, _)
Less(a, b) ==
  IF b = <<>> THEN FALSE
  ELSE IF a = <<>> THEN TRUE
  ELSE IF Head(a) = Head(b) THEN Less(Tail(a), Tail(b))
  ELSE CodeOf(Head(a)) < CodeOf(Head(b))

\* String.prototype.includes
includes(t, part) ==
  \E i \in 1 .. Len(t) - Len(part) + 1 : SubSeq(t, i, i + Len(part) - 1) = part

\* white space of String.prototype.trim and of \s
WhiteSpace == {" ", "TAB"}

RECURSIVE trimStart(_)
trimStart(t) ==
  IF t # <<>> /\ Head(t) \in WhiteSpace THEN trimStart(Tail(t)) ELSE t

RECURSIVE trimEnd(_)
trimEnd(t) ==
  IF t # <<>> /\ t[Len(t)] \in WhiteSpace
  THEN trimEnd(SubSeq(t, 1, Len(t) - 1)) ELSE t

trim(t) == trimEnd(trimStart(t))

\* String.prototype.split(sep) for a separator of one code unit
RECURSIVE split(_, _)
split(t, sep) ==
  IF \A i \in DOMAIN t : t[i] # sep THEN <<t>>
  ELSE LET k == CHOOSE i \in DOMAIN t :
                  t[i] = sep /\ \A j \in 1 .. i - 1 : t[j] # sep
       IN <<SubSeq(t, 1, k - 1)>> \o split(SubSeq(t, k + 1, Len(t)), sep)

\* Array.prototype.join
RECURSIVE join(_, _)
join(parts, sep) ==
  IF parts = <<>> THEN <<>>
  ELSE IF Len(parts) = 1 THEN parts[1]
  ELSE parts[1] \o sep \o join(Tail(parts), sep)

----------------------------------------------------------------------------
(* What the two edge-function endpoints can answer to the client *)

Response(fetchThrows, ok, jsonThrows, success, isArray, data) ==
  [fetchThrows |-> fetchThrows, ok |-> ok, jsonThrows |-> jsonThrows,
   success |-> success, isArray |-> isArray, data |-> data]

NetworkException == Response(TRUE, FALSE, FALSE, FALSE, FALSE, <<>>)
HttpError == Response(FALSE, FALSE, FALSE, FALSE, FALSE, <<>>)
MalformedJson == Response(FALSE, TRUE, TRUE, FALSE, FALSE, <<>>)
DataNotArray == Response(FALSE, TRUE, FALSE, TRUE, FALSE, <<>>)
SuccessFalse(d) == Response(FALSE, TRUE, FALSE, FALSE, TRUE, d)
Success(d) == Response(FALSE, TRUE, FALSE, TRUE, TRUE, d)

T1 == Post(<<"twitter", 1>>, "twitter", "Genel", Today, 600, 120)
T2 == Post(<<"twitter", 2>>, "twitter", "Ulasim", Today - 1, 30, 280)
TBad == Post(<<"twitter", 3>>, "twitter", "Genel", InvalidDate, 0, 50)
R1 == Post(<<"instagram", 0>>, "instagram", "Cevre", Today, 700, 500)
R2 == Post(<<"youtube", 0>>, "youtube", "Genel", Today, 600, 80)

TwitterBodies == { <<>>, <<T1, T2>>, <<TBad>> }
RssBodies == { <<>>, <<R1>>, <<R1, R2>> }

ResponsesOf(bodies) ==
  {NetworkException, HttpError, MalformedJson, DataNotArray}
    \cup { SuccessFalse(d) : d \in bodies \ {<<>>} }
    \cup { Success(d) : d \in bodies }

TwitterResponses == ResponsesOf(TwitterBodies)
RssResponses == ResponsesOf(RssBodies)

----------------------------------------------------------------------------
(* SocialMediaService *)

\* the body of the try block shared by fetchRealTwitterData and
\* fetchRealRSSFeeds (part_001): response.ok, response.json(), data.success
TryFetch(resp) ==
  IF resp.fetchThrows THEN Throw
  ELSE IF ~resp.ok THEN Throw
  ELSE IF resp.jsonThrows THEN Throw
  ELSE IF resp.success /\ resp.isArray THEN Return(resp.data)
  ELSE Return(<<>>)

fetchRealTwitterData(resp) ==
  LET r == TryFetch(resp)
  IN IF r.threw THEN Return(<<>>) ELSE r

\* socialMediaService.ts returns [] on a non-ok status, part_001 throws
\* into its own catch; both catch everything else
fetchRealRSSFeeds(variant, resp) ==
  IF variant = "socialMediaService.ts" /\ ~resp.fetchThrows /\ ~resp.ok
  THEN Return(<<>>)
  ELSE LET r == TryFetch(resp)
       IN IF r.threw THEN Return(<<>>) ELSE r

DayOf(t) == Today + (t \div (MinutesPerDay * MsPerMinute))
MinuteOf(t) == (t \div MsPerMinute) % MinutesPerDay

\* getMockData(): eight sample posts in socialMediaService.ts, two
\* "service degraded" messages in part_001
getMockData(variant, t) ==
  IF variant = "socialMediaService.ts"
  THEN << Post(<<"real_content", 1>>, "twitter", "Ulasim", DayOf(t), 870, 220),
          Post(<<"real_content", 2>>, "instagram", "Egitim", DayOf(t) - 1, 1005, 245),
          Post(<<"real_content", 3>>, "facebook", "Cevre", DayOf(t) - 2, 615, 251),
          Post(<<"real_content", 4>>, "twitter", "Politika", DayOf(t) - 2, 1230, 230),
          Post(<<"real_content", 5>>, "youtube", "Kultur", DayOf(t), 720, 215),
          Post(<<"real_content", 6>>, "twitter", "Sosyal", DayOf(t) - 1, 585, 252),
          Post(<<"real_content", 7>>, "instagram", "Spor", DayOf(t), 1100, 238),
          Post(<<"real_content", 8>>, "facebook", "Ekonomi", DayOf(t) - 1, 795, 250) >>
  ELSE << Post(<<"system_message", 1>>, "rss", "Sistem", DayOf(t), MinuteOf(t), 243),
          Post(<<"system_message", 2>>, "rss", "Sistem", DayOf(t), MinuteOf(t), 224) >>

\* a set that keeps an entry already present
MapSetIfAbsent(m, k, v) == [x \in DOMAIN m \cup {k} |-> IF x \in DOMAIN m THEN m[x] ELSE v]

\* a set that leaves an entry that is as new as the one offered
MapSetUnlessAsNew(m, k, v) ==
  [x \in DOMAIN m \cup {k} |->
     IF x = k /\ (k \notin DOMAIN m \/ m[k].timestamp < v.timestamp) THEN v ELSE m[x]]

\* Map.get / Map.set on the cache
MapGet(m, k) == IF k \in DOMAIN m THEN <<m[k]>> ELSE <<>>
MapSet(m, k, v) == [x \in DOMAIN m \cup {k} |-> IF x = k THEN v ELSE m[x]]
EmptyMap == [x \in {} |-> 0]

\* an entry that is stamped with the epoch instead of the merge time
EntryUnstamped(data, timestamp) == [data |-> data, timestamp |-> 0]

Entry(data, timestamp) == [data |-> data, timestamp |-> timestamp]

\* the freshness test with the duration taken in seconds
IsFreshSeconds(c, t) == c # <<>> /\ t - c[1].timestamp < 5 * 60

\* a freshness test that an entry passes whatever its age
IsFreshForever(c, t) == c # <<>>

\* cached && Date.now() - cached.timestamp < this.CACHE_DURATION
IsFresh(c, t) == c # <<>> /\ t - c[1].timestamp < CACHE_DURATION

\* a fallback that ignores the stale entry
FallbackMockOnly(variant, c, t) == Return(getMockData(variant, t))

\* a fallback that gives up when there is no entry
FallbackOrThrow(variant, c, t) ==
  IF c # <<>> THEN Return(c[1].data) ELSE Throw

\* a fallback with nothing to show when there is no entry
FallbackEmpty(variant, c, t) ==
  IF c # <<>> THEN Return(c[1].data) ELSE Return(<<>>)

\* lines 181-189: stale cache if there is one, else the mock data
Fallback(variant, c, t) ==
  IF c # <<>> THEN Return(c[1].data) ELSE Return(getMockData(variant, t))

\* an assignment where the code appends
PushReplacing(all, posts) == IF Len(posts) > 0 THEN posts ELSE all

\* allPosts.push(...posts) under `if (posts.length > 0)`
Push(all, posts) == IF Len(posts) > 0 THEN all \o posts ELSE all

NoCall == [twitter |-> FALSE, rss |-> FALSE]
NoResponse == [twitter |-> <<>>, rss |-> <<>>]
NoPrev == [valid |-> FALSE, value |-> <<>>, path |-> "none", startedAt |-> 0,
           cachedAt |-> 0, invoked |-> NoCall, twitterPosts |-> <<>>,
           rssPosts |-> <<>>]

SvcInit ==
  /\ svcVariant \in ServiceVariants
  /\ now = 0
  /\ cache = EmptyMap
  /\ pc = [c \in Calls |-> "idle"]
  /\ cached = [c \in Calls |-> <<>>]
  /\ twitterPosts = [c \in Calls |-> <<>>]
  /\ rssPosts = [c \in Calls |-> <<>>]
  /\ allPosts = [c \in Calls |-> <<>>]
  /\ hasAnyData = [c \in Calls |-> FALSE]
  /\ result = [c \in Calls |-> Return(<<>>)]
  /\ invoked = [c \in Calls |-> NoCall]
  /\ received = [c \in Calls |-> NoResponse]
  /\ servedAt = [c \in Calls |-> 0]
  /\ path = [c \in Calls |-> "none"]
  /\ startedAt = [c \in Calls |-> 0]
  /\ prev = NoPrev

\* the clock advances
Tick ==
  /\ \E t \in TimePoints : t > now /\ now' = t
  /\ UNCHANGED <<svcVariant, cache, pc, cached, twitterPosts, rssPosts,
                 allPosts, hasAnyData, result, invoked, received, servedAt,
                 path, startedAt, prev>>
  /\ UNCHANGED <<fnVars, twVars, qVars>>

\* getAllPosts() is called: lines 126-137, up to the first await
GetAllPosts(c) ==
  /\ pc[c] = "idle"
  /\ LET got == MapGet(cache, cacheKey)
     IN /\ cached' = [cached EXCEPT ![c] = got]
        /\ IF IsFresh(got, now)
           THEN /\ result' = [result EXCEPT ![c] = Return(got[1].data)]
                /\ servedAt' = [servedAt EXCEPT ![c] = got[1].timestamp]
                /\ path' = [path EXCEPT ![c] = "hit"]
                /\ pc' = [pc EXCEPT ![c] = "done"]
           ELSE /\ result' = [result EXCEPT ![c] = Return(<<>>)]
                /\ servedAt' = [servedAt EXCEPT ![c] = 0]
                /\ path' = [path EXCEPT ![c] = "none"]
                /\ pc' = [pc EXCEPT ![c] = "twitter"]
  /\ startedAt' = [startedAt EXCEPT ![c] = now]
  /\ twitterPosts' = [twitterPosts EXCEPT ![c] = <<>>]
  /\ rssPosts' = [rssPosts EXCEPT ![c] = <<>>]
  /\ allPosts' = [allPosts EXCEPT ![c] = <<>>]
  /\ hasAnyData' = [hasAnyData EXCEPT ![c] = FALSE]
  /\ invoked' = [invoked EXCEPT ![c] = NoCall]
  /\ received' = [received EXCEPT ![c] = NoResponse]
  /\ UNCHANGED <<svcVariant, now, cache, prev>>
  /\ UNCHANGED <<fnVars, twVars, qVars>>

\* lines 139-152: the Twitter adapter answers
TwitterAnswer(c, resp) ==
  /\ pc[c] = "twitter"
  /\ LET r == fetchRealTwitterData(resp)
         got == IF r.threw THEN <<>> ELSE r.value
     IN /\ twitterPosts' = [twitterPosts EXCEPT ![c] = got]
        /\ allPosts' = [allPosts EXCEPT ![c] = Push(allPosts[c], got)]
        /\ hasAnyData' = [hasAnyData EXCEPT ![c] = hasAnyData[c] \/ Len(got) > 0]
  /\ invoked' = [invoked EXCEPT ![c].twitter = TRUE]
  /\ received' = [received EXCEPT ![c].twitter = <<resp>>]
  /\ pc' = [pc EXCEPT ![c] = "rss"]
  /\ UNCHANGED <<svcVariant, now, cache, cached, rssPosts, result, servedAt,
                 path, startedAt, prev>>

\* the Twitter endpoint answers with an arbitrary response
TwitterDone(c, resp) == TwitterAnswer(c, resp) /\ UNCHANGED <<fnVars, twVars, qVars>>

\* lines 154-190: the RSS adapter answers, then merge, cache and return
RssAnswer(c, resp) ==
  /\ pc[c] = "rss"
  /\ LET r == fetchRealRSSFeeds(svcVariant, resp)
         got == IF r.threw THEN <<>> ELSE r.value
         all == Push(allPosts[c], got)
         any == hasAnyData[c] \/ Len(got) > 0
     IN /\ rssPosts' = [rssPosts EXCEPT ![c] = got]
        /\ hasAnyData' = [hasAnyData EXCEPT ![c] = any]
        /\ IF any
           THEN \E sorted \in SortOutcomes(all) :
                  /\ allPosts' = [allPosts EXCEPT ![c] = sorted]
                  /\ cache' = MapSet(cache, cacheKey, Entry(sorted, now))
                  /\ result' = [result EXCEPT ![c] = Return(sorted)]
                  /\ servedAt' = [servedAt EXCEPT ![c] = now]
                  /\ path' = [path EXCEPT ![c] = "merge"]
           ELSE /\ allPosts' = [allPosts EXCEPT ![c] = all]
                /\ cache' = cache
                /\ result' = [result EXCEPT ![c] = Fallback(svcVariant, cached[c], now)]
                /\ servedAt' = [servedAt EXCEPT ![c] = 0]
                /\ path' = [path EXCEPT ![c] =
                              IF cached[c] # <<>> THEN "stale" ELSE "mock"]
  /\ invoked' = [invoked EXCEPT ![c].rss = TRUE]
  /\ received' = [received EXCEPT ![c].rss = <<resp>>]
  /\ pc' = [pc EXCEPT ![c] = "done"]
  /\ UNCHANGED <<svcVariant, now, cached, twitterPosts, startedAt, prev>>

\* the RSS endpoint answers with an arbitrary response
RssDone(c, resp) == RssAnswer(c, resp) /\ UNCHANGED <<fnVars, twVars, qVars>>

\* App.loadPosts receives the posts (setAllPosts) or the rejection; the
\* locals of the finished call are gone
LoadPostsDone(c) ==
  /\ pc[c] = "done"
  /\ prev' = [valid |-> TRUE, value |-> result[c], path |-> path[c],
              startedAt |-> startedAt[c], cachedAt |-> servedAt[c],
              invoked |-> invoked[c], twitterPosts |-> twitterPosts[c],
              rssPosts |-> rssPosts[c]]
  /\ pc' = [pc EXCEPT ![c] = "idle"]
  /\ cached' = [cached EXCEPT ![c] = <<>>]
  /\ twitterPosts' = [twitterPosts EXCEPT ![c] = <<>>]
  /\ rssPosts' = [rssPosts EXCEPT ![c] = <<>>]
  /\ allPosts' = [allPosts EXCEPT ![c] = <<>>]
  /\ hasAnyData' = [hasAnyData EXCEPT ![c] = FALSE]
  /\ result' = [result EXCEPT ![c] = Return(<<>>)]
  /\ invoked' = [invoked EXCEPT ![c] = NoCall]
  /\ received' = [received EXCEPT ![c] = NoResponse]
  /\ servedAt' = [servedAt EXCEPT ![c] = 0]
  /\ path' = [path EXCEPT ![c] = "none"]
  /\ startedAt' = [startedAt EXCEPT ![c] = 0]
  /\ UNCHANGED <<svcVariant, now, cache>>
  /\ UNCHANGED <<fnVars, twVars, qVars>>

\* section 5 of the design: one aggregation cycle at a time
NoCallInFlight == \A c \in Calls : pc[c] = "idle"

LoadPosts(c) == NoCallInFlight /\ GetAllPosts(c)

SvcNext ==
  \/ Tick
  \/ \E c \in Calls : LoadPosts(c)
  \/ \E c \in Calls : \E resp \in TwitterResponses : TwitterDone(c, resp)
  \/ \E c \in Calls : \E resp \in RssResponses : RssDone(c, resp)
  \/ \E c \in Calls : LoadPostsDone(c)

----------------------------------------------------------------------------
(* The fetch-rss-feeds edge function *)

FeedVariants == {"timeout15", "plain20"}

\* Object.entries(RSS_FEEDS), in insertion order
RSS_FEEDS == <<"instagram", "facebook", "youtube">>

maxRetries == 3
BackoffUnit == 1000
MinContentLength == 10
MissingDate == -2

\* a limit of twenty in both versions
PostLimitTwenty(variant) == 20

\* posts.slice(0, 15) in the first version, posts.slice(0, 20) in the second
PostLimit(variant) == IF variant = "timeout15" THEN 15 ELSE 20

\* the ways fetchRSSFeed throws; only the first version aborts on a timer
ErrorKinds(variant) ==
  (IF variant = "timeout15" THEN {"Timeout"} ELSE {})
    \cup {"Network", "HTTP", "Empty", "XML"}
NoError == "none"

\* an item/entry element: length of its description (or title) once tags,
\* entities and runs of white space are gone and it is trimmed, and its pubDate
\* (MissingDate: no pubDate element, InvalidDate: not a date)
Item(len, date, time) == [len |-> len, date |-> date, time |-> time]

ItemA == Item(50, Today, 700)
ItemB == Item(20, Today - 1, 100)
ItemShort == Item(5, Today, 710)
ItemNoDate == Item(30, MissingDate, 0)
ItemBadDate == Item(30, InvalidDate, 0)
ItemLong == Item(800, Today, 720)

FeedItemLists ==
  { <<>>, <<ItemShort>>, <<ItemA>>, <<ItemShort, ItemB>>,
    <<ItemBadDate, ItemNoDate>>, <<ItemLong>> }

\* platform.includes('instagram') ... else 'rss'
PlatformType(platform) ==
  IF platform = "instagram" THEN "instagram"
  ELSE IF platform = "facebook" THEN "facebook"
  ELSE IF platform = "youtube" THEN "youtube"
  ELSE "rss"

ContentLimit == 500

\* a cleanContent that does not cut the text
CleanedLengthUncut(n) == n

\* cleanContent(...).length: .substring(0, 500) ends the chain
CleanedLength(n) == IF n < ContentLimit THEN n ELSE ContentLimit

\* parseRSSItem: <<>> for null (content shorter than 10 characters, or
\* toISOString throwing on an invalid date), else <<post>>
parseRSSItem(item, platform, index, t) ==
  IF CleanedLength(item.len) < MinContentLength THEN <<>>
  ELSE IF item.date = InvalidDate THEN <<>>
  ELSE << Post(<<platform, index>>, PlatformType(platform), "Genel",
               IF item.date = MissingDate THEN DayOf(t) ELSE item.date,
               IF item.date = MissingDate THEN MinuteOf(t) ELSE item.time,
               CleanedLength(item.len)) >>

\* items.forEach((item, index) => ...): the posts of the items, in order
RECURSIVE ParseItems(_, _, _)
ParseItems(items, platform, t) ==
  IF items = <<>> THEN <<>>
  ELSE ParseItems(SubSeq(items, 1, Len(items) - 1), platform, t)
         \o parseRSSItem(items[Len(items)], platform, Len(items) - 1, t)

Slice(s, n) == SubSeq(s, 1, IF Len(s) < n THEN Len(s) ELSE n)

\* what one call of fetchRSSFeed can come to
Fetched(items) == [ok |-> TRUE, error |-> NoError, items |-> items]
FetchFailed(kind) == [ok |-> FALSE, error |-> kind, items |-> <<>>]

FetchOutcomes(variant) ==
  { FetchFailed(k) : k \in ErrorKinds(variant) }
    \cup { Fetched(items) : items \in FeedItemLists }

\* a fetchRSSFeed that throws when it has no post to return
fetchRSSFeedNoPostsThrows(variant, outcome, platform, t) ==
  IF outcome.ok /\ ParseItems(outcome.items, platform, t) # <<>>
  THEN Return(Slice(ParseItems(outcome.items, platform, t), PostLimit(variant)))
  ELSE [threw |-> TRUE, value |-> IF outcome.ok THEN "Empty" ELSE outcome.error]

\* fetchRSSFeed: throws, or returns the first posts of the parsed items
fetchRSSFeed(variant, outcome, platform, t) ==
  IF outcome.ok
  THEN Return(Slice(ParseItems(outcome.items, platform, t), PostLimit(variant)))
  ELSE [threw |-> TRUE, value |-> outcome.error]

\* setTimeout(resolve, 1000 * attempt)
BackoffDelay(n) == BackoffUnit * n

\* a wait after every failed attempt, the last one included
ShouldWaitAlways(n) == n <= maxRetries

\* if (attempt < maxRetries): wait before the next attempt
ShouldWait(n) == n < maxRetries

\* a loop that goes round once more than maxRetries
LoopContinuesOnceMore(n) == n <= maxRetries + 1

\* for (...; attempt <= maxRetries; ...)
LoopContinues(n) == n <= maxRetries

\* catch (error) { lastError = error as Error; ... }
Catch(last, error) == error

NoFeedLog == [status |-> "pending", posts |-> <<>>]
NothingFinished == [feed |-> 0, tries |-> <<>>, delays |-> <<>>,
                    last |-> Return(<<>>), result |-> Return(<<>>)]

FnInit ==
  /\ fnPc = "idle"
  /\ feedIdx = 1
  /\ attempt = 1
  /\ lastError = NoError
  /\ lastFetch = Return(<<>>)
  /\ tries = <<>>
  /\ delays = <<>>
  /\ finished = NothingFinished
  /\ feeds = [f \in DOMAIN RSS_FEEDS |-> NoFeedLog]
  /\ fnAllPosts = <<>>
  /\ fnResponse = <<>>
  /\ request = "none"
  /\ pendingFor = 0
  /\ lastOutcome = "none"

\* serve: a GET request arrives, the loop starts on the first feed
FnStart ==
  /\ fnPc = "idle"
  /\ UNCHANGED <<svcVars, twVars, qVars>>
  /\ fnPc' = "fetching"
  /\ feedIdx' = 1
  /\ attempt' = 1
  /\ lastError' = NoError
  /\ lastFetch' = Return(<<>>)
  /\ tries' = <<>>
  /\ delays' = <<>>
  /\ finished' = NothingFinished
  /\ feeds' = [f \in DOMAIN RSS_FEEDS |-> NoFeedLog]
  /\ fnAllPosts' = <<>>
  /\ fnResponse' = <<>>
  /\ request' = "none"
  /\ pendingFor' = 0
  /\ lastOutcome' = "none"
  /\ UNCHANGED fnVariant

\* a loop that a failed feed breaks out of
LoopEndsOnError(f, r) == f >= Len(RSS_FEEDS) \/ r.threw

\* for (const [platform, url] of Object.entries(RSS_FEEDS)) with the
\* try/catch inside its body: only the last feed ends the loop
LoopEnds(f, r) == f >= Len(RSS_FEEDS)

\* fetchRSSFeedWithRetry is over with outcome r (posts returned, or the
\* error thrown into the catch of the serve loop); the for loop of serve
\* goes on with the next feed, or the handler sorts and responds
FeedFinished(r, trs, dls, last) ==
  LET f == feedIdx
      all == IF r.threw THEN fnAllPosts ELSE Push(fnAllPosts, r.value)
  IN /\ finished' = [feed |-> f, tries |-> trs, delays |-> dls,
                     last |-> last, result |-> r]
     /\ feeds' = [feeds EXCEPT ![f] =
                    IF r.threw THEN [status |-> "failed", posts |-> <<>>]
                    ELSE [status |-> "ok", posts |-> r.value]]
     /\ attempt' = 1
     /\ lastError' = NoError
     /\ tries' = <<>>
     /\ delays' = <<>>
     /\ IF LoopEnds(f, r)
        THEN \E sorted \in SortOutcomes(all) :
               /\ feedIdx' = f
               /\ fnAllPosts' = sorted
               /\ fnResponse' = <<Success(sorted)>>
               /\ fnPc' = "responded"
        ELSE /\ feedIdx' = f + 1
             /\ fnAllPosts' = all
             /\ fnResponse' = <<>>
             /\ fnPc' = "fetching"

\* the loop of fetchRSSFeedWithRetry after a failed attempt and its wait,
\* if any: attempt++, then the next attempt or `throw lastError`
RetryOrThrow(n, err, trs, dls, last) ==
  IF LoopContinues(n + 1)
  THEN /\ attempt' = n + 1
       /\ lastError' = err
       /\ tries' = trs
       /\ delays' = dls
       /\ fnPc' = "fetching"
       /\ UNCHANGED <<feedIdx, finished, feeds, fnAllPosts, fnResponse>>
  ELSE FeedFinished([threw |-> TRUE, value |-> err], trs, dls, last)

\* one call of fetchRSSFeed inside fetchRSSFeedWithRetry returns or throws
FetchAttempt(outcome) ==
  /\ fnPc = "fetching"
  /\ LET r == fetchRSSFeed(fnVariant, outcome, RSS_FEEDS[feedIdx], now)
         trs == Append(tries, ~r.threw)
     IN /\ lastFetch' = r
        /\ IF ~r.threw
           THEN FeedFinished(r, trs, delays, r)
           ELSE LET err == Catch(lastError, r.value)
                IN IF ShouldWait(attempt)
                   THEN /\ lastError' = err
                        /\ tries' = trs
                        /\ fnPc' = "backoff"
                        /\ UNCHANGED <<feedIdx, attempt, delays, finished,
                                       feeds, fnAllPosts, fnResponse>>
                   ELSE RetryOrThrow(attempt, err, trs, delays, r)
  /\ request' = "none"
  /\ pendingFor' = 0
  /\ lastOutcome' = (IF outcome.ok THEN "feed" ELSE outcome.error)
  /\ UNCHANGED fnVariant
  /\ UNCHANGED <<svcVars, twVars, qVars>>

\* the timer of the backoff fires
Backoff ==
  /\ fnPc = "backoff"
  /\ RetryOrThrow(attempt, lastError, tries,
                  Append(delays, BackoffDelay(attempt)), lastFetch)
  /\ UNCHANGED <<fnVariant, lastFetch, request, pendingFor, lastOutcome>>
  /\ UNCHANGED <<svcVars, twVars, qVars>>

\* the response has left; the isolate is ready for the next request
Responded ==
  /\ fnPc = "responded"
  /\ fnPc' = "idle"
  /\ feedIdx' = 1
  /\ attempt' = 1
  /\ lastError' = NoError
  /\ lastFetch' = Return(<<>>)
  /\ tries' = <<>>
  /\ delays' = <<>>
  /\ finished' = NothingFinished
  /\ feeds' = [f \in DOMAIN RSS_FEEDS |-> NoFeedLog]
  /\ fnAllPosts' = <<>>
  /\ fnResponse' = <<>>
  /\ request' = "none"
  /\ pendingFor' = 0
  /\ lastOutcome' = "none"
  /\ UNCHANGED fnVariant

FnFinish == Responded /\ UNCHANGED <<svcVars, twVars, qVars>>

\* the steps of one attempt: fetch() is awaited, then response.text()

FETCH_TIMEOUT == 10000

\* how long a request is observed to be outstanding
StallPoints ==
  {0, FETCH_TIMEOUT - 1, FETCH_TIMEOUT}
    \cup { FETCH_TIMEOUT * (k + 1) : k \in 1 .. MaxStall }

\* setTimeout(() => controller.abort(), 10000) before fetch() and
\* clearTimeout(timeoutId) right after it; the second version has no timer
TimerArmed(variant, phase) == variant = "timeout15" /\ phase = "headers"

\* fetchRSSFeed calls fetch(url, ...)
SendRequest ==
  /\ fnPc = "fetching"
  /\ request = "none"
  /\ request' = "headers"
  /\ pendingFor' = 0
  /\ UNCHANGED <<fnVariant, fnPc, feedIdx, attempt, lastError, lastFetch,
                 tries, delays, finished, feeds, fnAllPosts, fnResponse,
                 lastOutcome>>
  /\ UNCHANGED <<svcVars, twVars, qVars>>

\* the upstream server stays silent; an armed timer goes off at 10 s
Stall ==
  /\ request # "none"
  /\ \E t \in StallPoints :
       /\ t > pendingFor
       /\ TimerArmed(fnVariant, request) => t <= FETCH_TIMEOUT
       /\ pendingFor' = t
  /\ UNCHANGED <<fnVariant, fnPc, feedIdx, attempt, lastError, lastFetch,
                 tries, delays, finished, feeds, fnAllPosts, fnResponse,
                 request, lastOutcome>>
  /\ UNCHANGED <<svcVars, twVars, qVars>>

\* the timer aborts the fetch: AbortError, "Timeout fetching ..."
TimerFires ==
  /\ request # "none"
  /\ TimerArmed(fnVariant, request)
  /\ pendingFor >= FETCH_TIMEOUT
  /\ FetchAttempt(FetchFailed("Timeout"))

\* fetch() rejects: the connection failed
FetchRejects ==
  /\ request = "headers"
  /\ FetchAttempt(FetchFailed("Network"))

\* fetch() resolves with the status line and headers: a non-ok status
\* throws, else the timer is cleared and response.text() is awaited
HeadersArrive(ok) ==
  /\ request = "headers"
  /\ IF ok
     THEN /\ request' = "body"
          /\ UNCHANGED <<fnVariant, fnPc, feedIdx, attempt, lastError,
                         lastFetch, tries, delays, finished, feeds,
                         fnAllPosts, fnResponse, pendingFor, lastOutcome>>
          /\ UNCHANGED <<svcVars, twVars, qVars>>
     ELSE FetchAttempt(FetchFailed("HTTP"))

\* response.text() resolves: empty body, XML that does not parse, or items
BodyArrives(outcome) ==
  /\ request = "body"
  /\ outcome.ok \/ outcome.error \in {"Empty", "XML"}
  /\ FetchAttempt(outcome)

FnNext ==
  \/ FnStart
  \/ \E outcome \in FetchOutcomes(fnVariant) : FetchAttempt(outcome)
  \/ Backoff
  \/ FnFinish

\* a document with more items than a feed may contribute: the third has
\* too little content, the seventh a pubDate that is not a date, the first
\* has just enough content
CrowdedItems ==
  [i \in 1 .. 23 |->
     IF i = 3 THEN ItemShort
     ELSE IF i = 7 THEN ItemBadDate
     ELSE Item(MinContentLength - 1 + i, Today, 700 - i)]

CrowdedOutcomes(variant) == FetchOutcomes(variant) \cup {Fetched(CrowdedItems)}

\* the feed function when a feed can also deliver the crowded document
CrowdedNext ==
  \/ FnStart
  \/ \E outcome \in CrowdedOutcomes(fnVariant) : FetchAttempt(outcome)
  \/ Backoff
  \/ FnFinish

----------------------------------------------------------------------------
(* The fetch-twitter-data edge function *)

accounts == <<"CBAdayOfisi", "imamoglu_int">>

\* a tweet of the timeline payload: lang "" stands for no lang field,
\* topic for what categorizeContent makes of its text, len for the length
\* of its text (the API escapes &, < and > as entities, so a tweet of 280
\* ampersands has a text of 1400 characters)
Tweet(id, lang, retweet, date, time, topic, len) ==
  [id |-> id, lang |-> lang, retweet |-> retweet, date |-> date,
   time |-> time, topic |-> topic, len |-> len]

TweetA1 == Tweet(1, "tr", FALSE, Today, 600, "Genel", 120)
TweetA2 == Tweet(2, "tr", FALSE, Today - 1, 30, "Ulasim", 280)
TweetBadDate == Tweet(3, "tr", FALSE, InvalidDate, 0, "Genel", 50)
TweetB1 == Tweet(4, "", FALSE, Today, 700, "Genel", 140)
TweetEnglish == Tweet(5, "en", FALSE, Today, 650, "Genel", 100)
TweetRetweet == Tweet(6, "tr", TRUE, Today, 660, "Genel", 140)
TweetLong == Tweet(7, "tr", FALSE, Today, 710, "Genel", 1400)

\* the tweets the timeline of an account may hold
TimelinesOf(a) ==
  IF a = 1
  THEN { <<>>, <<TweetA1, TweetA2>>, <<TweetA1, TweetEnglish, TweetRetweet>>,
         <<TweetA1, TweetBadDate, TweetA2>> }
  ELSE { <<TweetB1>>, <<TweetRetweet>>, <<TweetLong>> }

\* how the lookup of a handle can end
LookupOutcomes == {"throws", "notOk", "jsonThrows", "noId", "ok"}

\* how the timeline request can end
TimelineOutcomes(a) ==
  { [kind |-> k, tweets |-> <<>>] :
      k \in {"throws", "notOk", "jsonThrows", "noData"} }
    \cup { [kind |-> "tweets", tweets |-> l] : l \in TimelinesOf(a) }

\* lines 107-144: the posts pushed for the tweets, and whether
\* toISOString threw on the way (the posts pushed before it stay)
RECURSIVE TweetsToPosts(_)
TweetsToPosts(tweets) ==
  IF tweets = <<>> THEN [posts |-> <<>>, threw |-> FALSE]
  ELSE LET tweet == Head(tweets)
       IN IF tweet.lang # "" /\ tweet.lang # "tr" THEN TweetsToPosts(Tail(tweets))
          ELSE IF tweet.retweet THEN TweetsToPosts(Tail(tweets))
          ELSE IF tweet.date = InvalidDate THEN [posts |-> <<>>, threw |-> TRUE]
          ELSE LET rest == TweetsToPosts(Tail(tweets))
               IN [posts |-> <<Post(<<"twitter", tweet.id>>, "twitter",
                                     tweet.topic, tweet.date, tweet.time,
                                     tweet.len)>>
                               \o rest.posts,
                   threw |-> rest.threw]

TwResponseOf(status, success, data) ==
  [status |-> status, success |-> success, data |-> data]

Request(kind, a) == <<kind, accounts[a]>>

NotYet == [status |-> "pending", posts |-> <<>>]

TwInit ==
  /\ twPc = "idle"
  /\ twIdx = 1
  /\ twAllPosts = <<>>
  /\ twLog = <<>>
  /\ twGot = [a \in DOMAIN accounts |-> NotYet]
  /\ twResponse = <<>>

\* a check of the token that lets a missing token through
TokenMissingIgnored(token) == FALSE

\* if (!bearerToken) throw new Error('Twitter Bearer Token not configured')
TokenMissing(token) == ~token

\* a lookup failure that ends the loop over the accounts
LastAccountOrFailed(a, st) == a >= Len(accounts) \/ st # "ok"

\* for (const username of accounts): `continue` and the catch inside the
\* loop body both go on with the next account
LastAccount(a, st) == a >= Len(accounts)

\* the iteration of account twIdx ends with status st and posts ps: the
\* next lookup is sent, or the handler sorts and responds (lines 151-164)
TwAccountEnds(st, ps) ==
  LET all == twAllPosts \o ps
  IN /\ twGot' = [twGot EXCEPT ![twIdx] = [status |-> st, posts |-> ps]]
     /\ IF LastAccount(twIdx, st)
        THEN \E sorted \in SortOutcomes(all) :
               /\ twAllPosts' = sorted
               /\ twResponse' = <<TwResponseOf(200, TRUE, sorted)>>
               /\ twPc' = "responded"
               /\ UNCHANGED <<twIdx, twLog>>
        ELSE /\ twAllPosts' = all
             /\ twIdx' = twIdx + 1
             /\ twLog' = Append(twLog, Request("lookup", twIdx + 1))
             /\ twPc' = "lookup"
             /\ UNCHANGED twResponse

\* serve: a request arrives (lines 39-65, or 166-180 without a token)
TwStart ==
  /\ twPc = "idle"
  /\ IF TokenMissing(bearerToken)
     THEN /\ twResponse' = <<TwResponseOf(500, FALSE, <<>>)>>
          /\ twPc' = "responded"
          /\ UNCHANGED <<twIdx, twAllPosts, twLog, twGot>>
     ELSE /\ twPc' = "lookup"
          /\ twLog' = <<Request("lookup", 1)>>
          /\ UNCHANGED <<twIdx, twAllPosts, twGot, twResponse>>
  /\ UNCHANGED <<bearerToken, svcVars, fnVars, qVars>>

\* the user lookup is answered (lines 67-95)
TwLookupDone(outcome) ==
  /\ twPc = "lookup"
  /\ IF outcome = "ok"
     THEN /\ twPc' = "timeline"
          /\ twLog' = Append(twLog, Request("tweets", twIdx))
          /\ UNCHANGED <<twIdx, twAllPosts, twGot, twResponse>>
     ELSE TwAccountEnds(IF outcome \in {"notOk", "noId"} THEN "skipped"
                        ELSE "threw", <<>>)
  /\ UNCHANGED <<bearerToken, svcVars, fnVars, qVars>>

\* the timeline request is answered (lines 97-148)
TwTimelineDone(outcome) ==
  /\ twPc = "timeline"
  /\ LET made == TweetsToPosts(outcome.tweets)
     IN IF outcome.kind = "tweets"
        THEN TwAccountEnds(IF made.threw THEN "threw" ELSE "ok", made.posts)
        ELSE TwAccountEnds(IF outcome.kind = "notOk" THEN "skipped"
                           ELSE IF outcome.kind = "noData" THEN "ok"
                           ELSE "threw", <<>>)
  /\ UNCHANGED <<bearerToken, svcVars, fnVars, qVars>>

\* the response has left; the isolate is ready for the next request
TwResponded ==
  /\ twPc = "responded"
  /\ twPc' = "idle"
  /\ twIdx' = 1
  /\ twAllPosts' = <<>>
  /\ twLog' = <<>>
  /\ twGot' = [a \in DOMAIN accounts |-> NotYet]
  /\ twResponse' = <<>>
  /\ UNCHANGED bearerToken

TwFinish == TwResponded /\ UNCHANGED <<svcVars, fnVars, qVars>>

TwNext ==
  \/ TwStart
  \/ \E outcome \in LookupOutcomes : TwLookupDone(outcome)
  \/ \E outcome \in TimelineOutcomes(twIdx) : TwTimelineDone(outcome)
  \/ TwFinish

----------------------------------------------------------------------------
(* The consumer functions of SocialMediaService *)

\* a SocialMediaPost as these functions read it (<<>> for no category)
QPost(content, summary, tags, category, platform, date) ==
  [content |-> content, summary |-> summary, tags |-> tags,
   category |-> category, platform |-> platform, date |-> date]

Ulasim == <<"U", "l", "a", "s,", "i-", "m">>
Istanbul == <<"I.">> \o Chars("stanbul")

PostMetro ==
  QPost(Chars("Yeni Metro hatti"), Chars("Yeni Metro"),
        <<Chars("Metro"), Ulasim>>, Ulasim, Chars("twitter"),
        Chars("2025-01-15"))
PostPark ==
  QPost(Chars("Park ve metro"), Chars("Park"),
        <<Chars("Park"), Chars("Metro"), Chars("YesilPark")>>, Chars("Cevre"),
        Chars("instagram"), Chars("2025-02-01"))
PostIstanbul ==
  QPost(Istanbul \o Chars(" park"), Istanbul,
        <<Istanbul>>, <<>>, Chars("twitter"), Chars("2024-12-31"))

SamplePosts == {PostMetro, PostPark, PostIstanbul}

SeqsUpTo(S, n) == UNION { [1 .. k -> S] : k \in 0 .. n }

PostLists == SeqsUpTo(SamplePosts, MaxPosts)

Queries ==
  { <<>>, Chars("  "), <<"TAB">>, Chars("metro"), Chars("METRO park"),
    Chars(" park  metro "), Chars("metro") \o <<"TAB">> \o Chars("park"),
    Chars("cevre"), Chars("istanbul"), Chars("xyz") }

\* a search that accepts a post when one term is found
searchPostsAnyTerm(posts, query) ==
  IF trim(query) = <<>> THEN posts
  ELSE LET searchTerms ==
             SelectSeq(split(toLowerCase(query), " "), LAMBDA term : Len(term) > 0)
       IN SelectSeq(posts, LAMBDA post :
            LET searchableText ==
                  toLowerCase(join(<<post.content, post.summary>> \o post.tags
                                     \o <<post.category>>, <<" ">>))
            IN \E i \in DOMAIN searchTerms : includes(searchableText, searchTerms[i]))

\* lines 419-434
searchPosts(posts, query) ==
  IF trim(query) = <<>> THEN posts
  ELSE LET searchTerms ==
             SelectSeq(split(toLowerCase(query), " "), LAMBDA term : Len(term) > 0)
       IN SelectSeq(posts, LAMBDA post :
            LET searchableText ==
                  toLowerCase(join(<<post.content, post.summary>> \o post.tags
                                     \o <<post.category>>, <<" ">>))
            IN \A i \in DOMAIN searchTerms : includes(searchableText, searchTerms[i]))

Filters(platform, category, dateFrom, dateTo, tags) ==
  [platform |-> platform, category |-> category, dateFrom |-> dateFrom,
   dateTo |-> dateTo, tags |-> tags]

\* the filters of the search form; <<>> is a dimension left out
FilterSets ==
  { Filters(pl, ca, df, dt, tg) :
      pl \in {<<>>, Chars("twitter")},
      ca \in {<<>>, Ulasim},
      df \in {<<>>, Chars("2025-01-15")},
      dt \in {<<>>, Chars("2025-01-15"), Chars("2025-01-31")},
      tg \in {<<>>, <<Chars("metro")>>, <<Chars("xyz"), Chars("PARK")>>,
              <<Chars("park"), Chars("yesil")>>} }

\* a tag test that wants the requested tag itself among the post's tags
hasMatchingTagExact(postTags, tags) ==
  \E i \in DOMAIN tags : \E j \in DOMAIN postTags : postTags[j] = tags[i]

\* lines 462-464: some requested tag is inside some tag of the post
hasMatchingTag(postTags, tags) ==
  \E i \in DOMAIN tags : \E j \in DOMAIN postTags :
    includes(toLowerCase(postTags[j]), toLowerCase(tags[i]))

\* a lower bound that shuts out the day it names
beforeDateFromInclusive(date, dateFrom) ==
  dateFrom # <<>> /\ ~Less(dateFrom, date)

\* line 453: filters.dateFrom && post.date < filters.dateFrom
beforeDateFrom(date, dateFrom) == dateFrom # <<>> /\ Less(date, dateFrom)

\* line 457: filters.dateTo && post.date > filters.dateTo
afterDateTo(date, dateTo) == dateTo # <<>> /\ Less(dateTo, date)

\* lines 437-472
filterPosts(posts, filters) ==
  SelectSeq(posts, LAMBDA post :
    IF filters.platform # <<>> /\ post.platform # filters.platform THEN FALSE
    ELSE IF filters.category # <<>> /\ post.category # filters.category THEN FALSE
    ELSE IF beforeDateFrom(post.date, filters.dateFrom) THEN FALSE
    ELSE IF afterDateTo(post.date, filters.dateTo) THEN FALSE
    ELSE IF Len(filters.tags) > 0 /\ ~hasMatchingTag(post.tags, filters.tags)
      THEN FALSE
    ELSE TRUE)

\* Array.prototype.slice(0, end) for an integer end; a negative end counts
\* from the end of the array
slice(s, end) ==
  LET e == IF end < 0 THEN (IF Len(s) + end < 0 THEN 0 ELSE Len(s) + end)
           ELSE IF end > Len(s) THEN Len(s) ELSE end
  IN SubSeq(s, 1, e)

\* lines 487-491: the tags of all the posts in the order forEach visits them
RECURSIVE AllTags(_)
AllTags(posts) ==
  IF posts = <<>> THEN <<>> ELSE Head(posts).tags \o AllTags(Tail(posts))

\* line 489 over the whole walk: the entries of the Map, one [tag, count]
\* per tag, in the order of first insertion
tagCounts(posts) ==
  LET all == AllTags(posts)
      first == SelectSeq([i \in DOMAIN all |-> i],
                         LAMBDA i : \A j \in 1 .. i - 1 : all[j] # all[i])
  IN [k \in DOMAIN first |->
        <<all[first[k]],
          Cardinality({ j \in DOMAIN all : all[j] = all[first[k]] })>>]

\* line 494: sort((a, b) => b[1] - a[1]), a stable sort by falling count
sortByCount(entries) ==
  LET Before(i, j) ==
        \/ entries[i][2] > entries[j][2]
        \/ entries[i][2] = entries[j][2] /\ i < j
      Place(i) == 1 + Cardinality({ j \in DOMAIN entries : Before(j, i) })
  IN [k \in DOMAIN entries |->
        entries[CHOOSE i \in DOMAIN entries : Place(i) = k]]

\* the limits the presentation layer can ask for: small ones, the default
\* (line 485) and the one of the tag cloud
Limits == (0 .. MaxLimit) \cup {20, 30}

\* the first tags met, whatever their counts
getPopularTagsUnsorted(posts, limit) ==
  LET top == slice(tagCounts(posts), limit)
  IN [k \in DOMAIN top |-> top[k][1]]

\* lines 485-497
getPopularTags(posts, limit) ==
  LET top == slice(sortByCount(tagCounts(posts)), limit)
  IN [k \in DOMAIN top |-> top[k][1]]

----------------------------------------------------------------------------
(* extractTags of the feed function and of the service *)

\* a text written with its Turkish letters as ~ and the digraph of the code
\* unit: T("~I.stanbul") is capital I with dot followed by "stanbul"
RECURSIVE UnitsFrom(_, _)
UnitsFrom(str, i) ==
  IF i > Len(str) THEN <<>>
  ELSE IF SubSeq(str, i, i) = "~"
    THEN <<SubSeq(str, i + 1, i + 2)>> \o UnitsFrom(str, i + 3)
  ELSE <<SubSeq(str, i, i)>> \o UnitsFrom(str, i + 1)

T(str) == UnitsFrom(str, 1)

\* where extractTags is written
ExtractSources == {"fetch-rss-feeds", "socialMediaService"}

\* \w of a regular expression without the u flag
WordUnits == Range(UpperAscii) \cup Range(LowerAscii) \cup Range(Digits) \cup {"_"}

\* the letters the feed function adds to \w (line 272)
TurkishUnits ==
  {"g^", "u:", "s,", "i-", "o:", "c,", "G^", "U:", "S,", "I.", "O:", "C,"}

\* the character class after # : index.ts line 272, socialMediaService.ts
\* line 60
HashtagUnits(source) ==
  IF source = "fetch-rss-feeds" THEN WordUnits \cup TurkishUnits ELSE WordUnits

\* the end of the longest run of units of a class that starts at i
RECURSIVE RunEnd(_, _, _)
RunEnd(t, i, class) ==
  IF i + 1 <= Len(t) /\ t[i + 1] \in class THEN RunEnd(t, i + 1, class) ELSE i

\* content.match(/#[...]+/g) from position i on, each match without its #
RECURSIVE matchHashtags(_, _, _)
matchHashtags(t, i, class) ==
  IF i > Len(t) THEN <<>>
  ELSE IF t[i] = "#" /\ i + 1 <= Len(t) /\ t[i + 1] \in class
    THEN LET e == RunEnd(t, i + 1, class)
         IN <<SubSeq(t, i + 1, e)>> \o matchHashtags(t, e + 1, class)
  ELSE matchHashtags(t, i + 1, class)

\* index.ts lines 278-293; the first ten are the table of
\* socialMediaService.ts lines 66-77
keywords ==
  << <<T("~I.stanbul"), <<T("~I.stanbul"), T("~S,ehir")>> >>,
     <<T("belediye"), <<T("Belediye"), T("Y~o:netim")>> >>,
     <<T("proje"), <<T("Proje"), T("Geli~s,im")>> >>,
     <<T("ula~s,~i-m"), <<T("Ula~s,~i-m"), T("Metro")>> >>,
     <<T("~c,evre"), <<T("~C,evre"), T("Ye~s,il")>> >>,
     <<T("gen~c,lik"), <<T("Gen~c,lik"), T("E~g^itim")>> >>,
     <<T("k~u:lt~u:r"), <<T("K~u:lt~u:r"), T("Sanat")>> >>,
     <<T("spor"), <<T("Spor"), T("Sa~g^l~i-k")>> >>,
     <<T("ekonomi"), <<T("Ekonomi"), T("~I.~s,")>> >>,
     <<T("sosyal"), <<T("Sosyal"), T("Toplum")>> >>,
     <<T("se~c,im"), <<T("Se~c,im"), T("Politika")>> >>,
     <<T("cumhurba~s,kan~i-"), <<T("CB"), T("Se~c,im")>> >>,
     <<T("millet"), <<T("Millet"), T("Halk")>> >>,
     <<T("demokrasi"), <<T("Demokrasi"), T("~O:zg~u:rl~u:k")>> >> >>

keywordsOf(source) ==
  IF source = "fetch-rss-feeds" THEN keywords ELSE SubSeq(keywords, 1, 10)

\* Object.entries(keywords).forEach(...): the related tags of the entries
\* from k on whose keyword is in the lower-cased content
RECURSIVE relatedTags(_, _, _)
relatedTags(content, table, k) ==
  IF k > Len(table) THEN <<>>
  ELSE (IF includes(toLowerCase(content), table[k][1]) THEN table[k][2] ELSE <<>>)
       \o relatedTags(content, table, k + 1)

\* every value at every place it has
UniqueKeepsAll(tags) == [i \in DOMAIN tags |-> i]

\* [...new Set(tags)]: each value once, at its first place
Unique(tags) ==
  SelectSeq([i \in DOMAIN tags |-> i],
            LAMBDA i : \A j \in 1 .. i - 1 : tags[j] # tags[i])

TagLimit == 5

\* index.ts lines 268-302, socialMediaService.ts lines 56-86
extractTags(source, content) ==
  LET tags == matchHashtags(content, 1, HashtagUnits(source))
              \o relatedTags(content, keywordsOf(source), 1)
      once == Unique(tags)
  IN slice([k \in DOMAIN once |-> tags[once[k]]], TagLimit)

TweetTagLimit == 8

\* part_002 lines 211-217: the names of the annotations that have one
\* (<<>> stands for an annotation without an entity name)
annotationNames(contextAnnotations) ==
  SelectSeq(contextAnnotations, LAMBDA name : name # <<>>)

\* part_002 lines 201-244; the pattern and the table are those of the feed
\* function
extractTweetTags(text, contextAnnotations) ==
  LET tags == matchHashtags(text, 1, HashtagUnits("fetch-rss-feeds"))
              \o annotationNames(contextAnnotations)
              \o relatedTags(text, keywords, 1)
      once == Unique(tags)
  IN slice([k \in DOMAIN once |-> tags[once[k]]], TweetTagLimit)

\* the context_annotations of a tweet, by their entity names
AnnotationLists ==
  { <<>>,
    <<T("Metro"), T("Spor")>>,
    <<T("Politics"), <<>>, T("Metro"), T("Politics")>>,
    <<T("Metro"), T("Turkey"), <<>>, T("Turkey"), T("Mayor"), T("News")>> }

Example ==
  T("~I.stanbul'da #Metro ve #Ye~s,ilUla~s,~i-m b~u:y~u:yor")

\* the contents handed to extractTags
Contents ==
  { Example,
    T("~I.stanbul"),
    T("istanbul ve ISTANBUL"),
    T("Ula~s,~i-m ve ~C,EVRE projesi"),
    T("#a #b_1 #c #d #e #f"),
    T("#Metro #Metro # #~S,ehir"),
    T("BELEDIYE ekonomi sosyal"),
    T("Se~c,im ve demokrasi"),
    T("yeni park"),
    <<>> }

----------------------------------------------------------------------------
(* categorizeContent of the feed function and of the Twitter function *)

\* index.ts lines 305-315, part_002 lines 247-257
categories ==
  << <<T("Ula~s,~i-m"), <<T("metro"), T("otob~u:s"), T("ula~s,~i-m"),
                          T("trafik"), T("yol"), T("k~o:pr~u:")>> >>,
     <<T("~C,evre"), <<T("~c,evre"), T("ye~s,il"), T("park"), T("a~g^a~c,"),
                       T("temiz"), T("do~g^a")>> >>,
     <<T("K~u:lt~u:r"), <<T("k~u:lt~u:r"), T("sanat"), T("m~u:ze"),
                          T("tiyatro"), T("konser"), T("festival")>> >>,
     <<T("Spor"), <<T("spor"), T("stadyum"), T("futbol"), T("basketbol"),
                    T("olimpiyat"), T("ma~c,")>> >>,
     <<T("E~g^itim"), <<T("e~g^itim"), T("okul"), T("~u:niversite"),
                        T("~o:~g^renci"), T("kurs"), T("bilim")>> >>,
     <<T("Ekonomi"), <<T("ekonomi"), T("i~s,"), T("yat~i-r~i-m"),
                       T("ticaret"), T("istihdam"), T("gelir")>> >>,
     <<T("Sosyal"), <<T("sosyal"), T("yard~i-m"), T("destek"), T("hizmet"),
                      T("vatanda~s,"), T("toplum")>> >>,
     <<T("Politika"), <<T("se~c,im"), T("cumhurba~s,kan~i-"), T("millet"),
                        T("demokrasi"), T("~o:zg~u:rl~u:k"), T("adalet")>> >>,
     <<T("Sa~g^l~i-k"), <<T("sa~g^l~i-k"), T("hastane"), T("doktor"),
                          T("tedavi"), T("a~s,~i-"), T("pandemi")>> >> >>

\* the for loop of lines 319-323 from entry k on, then line 325
RECURSIVE categorizeFrom(_, _)
categorizeFrom(lowerContent, k) ==
  IF k > Len(categories) THEN T("Genel")
  ELSE IF \E i \in DOMAIN categories[k][2] :
            includes(lowerContent, categories[k][2][i])
    THEN categories[k][1]
  ELSE categorizeFrom(lowerContent, k + 1)

\* a classification that reads the content as it is written
categorizeContentAsWritten(content) == categorizeFrom(content, 1)

\* index.ts lines 304-326, part_002 lines 246-268
categorizeContent(content) == categorizeFrom(toLowerCase(content), 1)

\* the contents handed to categorizeContent
CategorizeContents ==
  Contents \cup
    { T("park ve metro"), T("SPOR ve sanat"), T("Yeni Metro hatti"),
      T("~I.~S, ve okul"), T("a~s,~i- ve hastane"), T("MA~C, g~u:n~u:") }

----------------------------------------------------------------------------
(* cleanContent of the feed function and of the service *)

\* replace(/<[^>]*>/g, ''): a match starts at a < that has a > after it and
\* ends at the first such >, and the search goes on behind it; so a unit
\* goes when a > follows (or is) it and a < stands before (or is) it with
\* no > in between
removeTags(t) ==
  LET inTag(i) ==
        /\ \E j \in i .. Len(t) : t[j] = ">"
        /\ \E p \in 1 .. i : t[p] = "<" /\ \A k \in p .. i - 1 : t[k] # ">"
      kept == SelectSeq([i \in DOMAIN t |-> i], LAMBDA i : ~inTag(i))
  IN [k \in DOMAIN kept |-> t[kept[k]]]

\* replace(/&[^;]+;/g, ' '): a match is an & , at least one unit that is
\* not a ; , and the first ; after them; a unit inside a match cannot
\* start one, and the whole match becomes one space
replaceEntities(t) ==
  LET opens(p) ==
        /\ t[p] = "&"
        /\ p + 1 <= Len(t) /\ t[p + 1] # ";"
        /\ \E j \in p + 2 .. Len(t) : t[j] = ";"
      inEntity(i) ==
        \E p \in 1 .. i - 1 : opens(p) /\ \A k \in p + 2 .. i - 1 : t[k] # ";"
      kept == SelectSeq([i \in DOMAIN t |-> i], LAMBDA i : ~inEntity(i))
  IN [k \in DOMAIN kept |-> IF opens(kept[k]) THEN " " ELSE t[kept[k]]]

\* replace(/\s+/g, ' '): of a run of white space only one space is left
collapseWhiteSpace(t) ==
  LET kept == SelectSeq([i \in DOMAIN t |-> i],
                LAMBDA i : t[i] \notin WhiteSpace
                           \/ i = 1 \/ t[i - 1] \notin WhiteSpace)
  IN [k \in DOMAIN kept |->
        IF t[kept[k]] \in WhiteSpace THEN " " ELSE t[kept[k]]]

\* String.prototype.substring(0, end)
substring(t, end) == SubSeq(t, 1, IF end > Len(t) THEN Len(t) ELSE end)

\* a cleaning that leaves the white space as it is
cleanContentNoCollapse(content) ==
  substring(trim(replaceEntities(removeTags(content))), ContentLimit)

\* index.ts lines 246-254, socialMediaService.ts lines 34-42
cleanContent(content) ==
  substring(trim(collapseWhiteSpace(
              replaceEntities(removeTags(content)))), ContentLimit)

\* t written n times
Repeat(t, n) == [i \in 1 .. Len(t) * n |-> t[((i - 1) % Len(t)) + 1]]

TextUnits == {"<", ">", "&", ";", " ", "TAB", "a"}

\* the descriptions handed to cleanContent: every short text of markup,
\* entities and white space, and some that are longer than the limit
Texts ==
  SeqsUpTo(TextUnits, MaxText) \cup
    { Repeat(T("a"), ContentLimit + 1),
      Repeat(T("<i>abcdefgh  &lt;"), 60),
      Repeat(T("a"), ContentLimit - 1) \o T("  b c"),
      T("<p>Yeni  metro <b>hatti</b> &amp; park</p>") }

QInit ==
  /\ qOp = "none"
  /\ qArg = <<>>
  /\ qOut = <<>>

\* the presentation layer calls searchPosts(posts, query)
SearchPosts(query) ==
  /\ qOp = "none"
  /\ qOp' = "searchPosts"
  /\ qArg' = query
  /\ qOut' = searchPosts(qPosts, query)
  /\ UNCHANGED <<qPosts, svcVars, fnVars, twVars>>

\* the presentation layer calls filterPosts(posts, filters)
FilterPosts(filters) ==
  /\ qOp = "none"
  /\ qOp' = "filterPosts"
  /\ qArg' = filters
  /\ qOut' = filterPosts(qPosts, filters)
  /\ UNCHANGED <<qPosts, svcVars, fnVars, twVars>>

\* the presentation layer calls getPopularTags(posts, limit)
GetPopularTags(limit) ==
  /\ qOp = "none"
  /\ qOp' = "getPopularTags"
  /\ qArg' = limit
  /\ qOut' = getPopularTags(qPosts, limit)
  /\ UNCHANGED <<qPosts, svcVars, fnVars, twVars>>

\* parseRSSItem (index.ts line 222) calls extractTags(content)
ExtractTags(source, content) ==
  /\ qOp = "none"
  /\ qOp' = "extractTags"
  /\ qArg' = <<source, content>>
  /\ qOut' = extractTags(source, content)
  /\ UNCHANGED <<qPosts, svcVars, fnVars, twVars>>

\* the tweet loop (part_002 line 134) calls
\* extractTags(tweet.text, tweet.context_annotations)
ExtractTweetTags(text, contextAnnotations) ==
  /\ qOp = "none"
  /\ qOp' = "extractTweetTags"
  /\ qArg' = <<text, contextAnnotations>>
  /\ qOut' = extractTweetTags(text, contextAnnotations)
  /\ UNCHANGED <<qPosts, svcVars, fnVars, twVars>>

\* parseRSSItem (index.ts line 223) and the tweet loop (part_002 line 135)
\* call categorizeContent(content)
CategorizeContent(content) ==
  /\ qOp = "none"
  /\ qOp' = "categorizeContent"
  /\ qArg' = content
  /\ qOut' = categorizeContent(content)
  /\ UNCHANGED <<qPosts, svcVars, fnVars, twVars>>

\* parseRSSItem (index.ts line 195) calls cleanContent(description || title)
CleanContent(content) ==
  /\ qOp = "none"
  /\ qOp' = "cleanContent"
  /\ qArg' = content
  /\ qOut' = cleanContent(content)
  /\ UNCHANGED <<qPosts, svcVars, fnVars, twVars>>

----------------------------------------------------------------------------
(* The client calling the deployed function *)

\* what the client's fetch can see of the function's response: the
\* response itself, or a failure of the transport
Delivered(resp) == {resp, NetworkException, HttpError}

\* fetchRealRSSFeeds sends its request once the Twitter adapter is done
E2EFnStart == (\E c \in Calls : pc[c] = "rss") /\ FnStart

\* fetchRealTwitterData sends its request
E2ETwStart == (\E c \in Calls : pc[c] = "twitter") /\ TwStart

\* the Response of fetch-twitter-data as the client's fetch reads it
ToClient(r) == Response(FALSE, r.status = 200, FALSE, r.success, TRUE, r.data)

\* the client gets the answer of fetch-twitter-data
E2ETwitterDone(c) ==
  /\ TwResponded
  /\ UNCHANGED <<fnVars, qVars>>
  /\ \E resp \in Delivered(ToClient(twResponse[1])) : TwitterAnswer(c, resp)

\* the client gets the function's answer
E2ERssDone(c) ==
  /\ Responded
  /\ UNCHANGED <<twVars, qVars>>
  /\ \E resp \in Delivered(fnResponse[1]) : RssAnswer(c, resp)

----------------------------------------------------------------------------
(* Specifications *)

vars == <<svcVars, fnVars, twVars, qVars>>

\* the service against arbitrary endpoint answers
Init ==
  /\ SvcInit /\ FnInit /\ TwInit /\ QInit
  /\ fnVariant = "timeout15" /\ bearerToken = TRUE /\ qPosts = <<>>
Next == SvcNext
Spec == Init /\ [][Next]_vars

\* getAllPosts() called on the singleton while earlier calls are still
\* waiting for their adapters: every call is made once
OverlapCalls == 1 .. MaxOverlap

OverlapInit ==
  /\ svcVariant \in ServiceVariants
  /\ now = 0
  /\ cache = EmptyMap
  /\ pc = [c \in OverlapCalls |-> "idle"]
  /\ cached = [c \in OverlapCalls |-> <<>>]
  /\ twitterPosts = [c \in OverlapCalls |-> <<>>]
  /\ rssPosts = [c \in OverlapCalls |-> <<>>]
  /\ allPosts = [c \in OverlapCalls |-> <<>>]
  /\ hasAnyData = [c \in OverlapCalls |-> FALSE]
  /\ result = [c \in OverlapCalls |-> Return(<<>>)]
  /\ invoked = [c \in OverlapCalls |-> NoCall]
  /\ received = [c \in OverlapCalls |-> NoResponse]
  /\ servedAt = [c \in OverlapCalls |-> 0]
  /\ path = [c \in OverlapCalls |-> "none"]
  /\ startedAt = [c \in OverlapCalls |-> 0]
  /\ prev = NoPrev
  /\ FnInit /\ TwInit /\ QInit
  /\ fnVariant = "timeout15" /\ bearerToken = TRUE /\ qPosts = <<>>

\* an adapter fails or delivers posts
OverlapTwitterResponses == {NetworkException, Success(<<T1, T2>>)}
OverlapRssResponses == {HttpError, Success(<<R1>>)}

OverlapNext ==
  \/ Tick
  \/ \E c \in OverlapCalls : GetAllPosts(c)
  \/ \E c \in OverlapCalls : \E resp \in OverlapTwitterResponses : TwitterDone(c, resp)
  \/ \E c \in OverlapCalls : \E resp \in OverlapRssResponses : RssDone(c, resp)

SpecOverlap == OverlapInit /\ [][OverlapNext]_vars

\* the feed function on its own
FeedInit ==
  /\ SvcInit /\ FnInit /\ TwInit /\ QInit
  /\ fnVariant \in FeedVariants /\ bearerToken = TRUE /\ qPosts = <<>>
FeedNext == FnNext
SpecFeed == FeedInit /\ [][FeedNext]_vars

\* the feed function on documents of every size
SpecCrowded == FeedInit /\ [][CrowdedNext]_vars

\* the feed function with the steps of each request
FetchNext ==
  \/ FnStart
  \/ SendRequest
  \/ Stall
  \/ TimerFires
  \/ FetchRejects
  \/ \E ok \in BOOLEAN : HeadersArrive(ok)
  \/ \E outcome \in FetchOutcomes(fnVariant) : BodyArrives(outcome)
  \/ Backoff
  \/ FnFinish
SpecFetch == FeedInit /\ [][FetchNext]_vars

\* the Twitter function on its own
TwitterInit ==
  /\ SvcInit /\ FnInit /\ TwInit /\ QInit
  /\ fnVariant = "timeout15" /\ bearerToken \in BOOLEAN /\ qPosts = <<>>
SpecTwitter == TwitterInit /\ [][TwNext]_vars

\* the consumer functions on the posts the presentation layer holds
QueryInit ==
  /\ SvcInit /\ FnInit /\ TwInit /\ QInit
  /\ fnVariant = "timeout15" /\ bearerToken = TRUE /\ qPosts \in PostLists
QueryNext ==
  \/ \E query \in Queries : SearchPosts(query)
  \/ \E filters \in FilterSets : FilterPosts(filters)
  \/ \E limit \in Limits : GetPopularTags(limit)
  \/ \E source \in ExtractSources, content \in Contents :
       ExtractTags(source, content)
  \/ \E content \in CategorizeContents : CategorizeContent(content)
  \/ \E text \in Contents, contextAnnotations \in AnnotationLists :
       ExtractTweetTags(text, contextAnnotations)
SpecQuery == QueryInit /\ [][QueryNext]_vars

\* cleanContent on the descriptions of feed items
TextInit ==
  /\ SvcInit /\ FnInit /\ TwInit /\ QInit
  /\ fnVariant = "timeout15" /\ bearerToken = TRUE /\ qPosts = <<>>
TextNext == \E content \in Texts : CleanContent(content)
SpecText == TextInit /\ [][TextNext]_vars

\* the service calling the Twitter function
E2ETwitterNext ==
  \/ Tick
  \/ \E c \in Calls : LoadPosts(c)
  \/ E2ETwStart
  \/ \E outcome \in LookupOutcomes : TwLookupDone(outcome)
  \/ \E outcome \in TimelineOutcomes(twIdx) : TwTimelineDone(outcome)
  \/ \E c \in Calls : E2ETwitterDone(c)
  \/ \E c \in Calls : \E resp \in RssResponses : RssDone(c, resp)
  \/ \E c \in Calls : LoadPostsDone(c)
SpecE2ETwitter == TwitterInit /\ [][E2ETwitterNext]_vars

\* the service calling the feed function
E2ENext ==
  \/ \E c \in Calls : LoadPosts(c)
  \/ \E c \in Calls : \E resp \in TwitterResponses : TwitterDone(c, resp)
  \/ E2EFnStart
  \/ \E outcome \in FetchOutcomes(fnVariant) : FetchAttempt(outcome)
  \/ Backoff
  \/ \E c \in Calls : E2ERssDone(c)
  \/ \E c \in Calls : LoadPostsDone(c)
SpecE2E == FeedInit /\ [][E2ENext]_vars

----------------------------------------------------------------------------
(* Helpers of the properties *)

Count(s, x) == Cardinality({ i \in DOMAIN s : s[i] = x })
IsPermutationOf(s, t) ==
  /\ Len(s) = Len(t)
  /\ \A x \in Range(s) \cup Range(t) : Count(s, x) = Count(t, x)
Platforms == {"twitter", "instagram", "facebook", "youtube", "rss"}
HasEntry == cacheKey \in DOMAIN cache
\* the posts an adapter's response carries for the client
Carried(r) ==
  IF r # <<>> /\ ~r[1].fetchThrows /\ r[1].ok /\ ~r[1].jsonThrows
     /\ r[1].success /\ r[1].isArray
  THEN r[1].data ELSE <<>>
Failed(r) == r # <<>> /\ Carried(r) = <<>>

----------------------------------------------------------------------------
(* Properties of getAllPosts *)

\* C1: a call made while the cache entry is younger than 5 minutes returns
\* the entry's data at once, invokes neither adapter and leaves the cache
\* as it was.
C1_CacheHit ==
  [][\A c \in Calls :
       (pc[c] = "idle" /\ pc'[c] # "idle" /\ HasEntry
          /\ now - cache[cacheKey].timestamp < 5 * 60 * 1000)
       => /\ pc'[c] = "done"
          /\ result'[c] = [threw |-> FALSE, value |-> cache[cacheKey].data]
          /\ invoked'[c] = [twitter |-> FALSE, rss |-> FALSE]
          /\ cache' = cache]_vars

C1_Witness ==
  \E c \in Calls :
    /\ pc[c] = "done" /\ path[c] = "hit"
    /\ HasEntry /\ now - cache[cacheKey].timestamp = 5 * 60 * 1000 - 1
    /\ result[c].value = cache[cacheKey].data
    /\ ~invoked[c].twitter /\ ~invoked[c].rss

\* C2 as stated: a call that starts less than 5 minutes after the call
\* before it, with adapters that return what they returned to that call,
\* returns the same list and invokes no adapter, whatever the call before
\* it returned.
C2_AnySecondCall ==
  \A c \in Calls :
    (pc[c] = "done" /\ prev.valid
       /\ startedAt[c] - prev.startedAt < 5 * 60 * 1000
       /\ (invoked[c].twitter /\ prev.invoked.twitter
             => twitterPosts[c] = prev.twitterPosts)
       /\ (invoked[c].rss /\ prev.invoked.rss
             => rssPosts[c] = prev.rssPosts))
    => /\ result[c] = prev.value
       /\ ~invoked[c].twitter /\ ~invoked[c].rss

\* C2 amended: when the call before returned a freshly merged or fresh
\* cached list and this call starts less than 5 minutes after that list
\* was cached, this call returns the same list and invokes no adapter.
C2_SecondCallAfterCachedResult ==
  \A c \in Calls :
    (pc[c] = "done" /\ prev.valid /\ prev.path \in {"merge", "hit"}
       /\ startedAt[c] - prev.cachedAt < 5 * 60 * 1000)
    => /\ result[c] = prev.value
       /\ ~invoked[c].twitter /\ ~invoked[c].rss

C2_Witness ==
  \E c \in Calls :
    /\ pc[c] = "done" /\ prev.valid /\ prev.path = "merge"
    /\ startedAt[c] > prev.cachedAt
    /\ startedAt[c] - prev.cachedAt < 5 * 60 * 1000
    /\ result[c] = prev.value /\ Len(result[c].value) > 1

\* C3: a miss whose adapters delivered at least one post overwrites the
\* single cache entry with the merged list and the current time and
\* returns that list; the entry is then fresh for the next call.
C3_SuccessfulMerge ==
  [][\A c \in Calls :
       (pc[c] = "rss" /\ pc'[c] = "done"
          /\ Len(twitterPosts'[c]) + Len(rssPosts'[c]) > 0)
       => /\ ~result'[c].threw
          /\ IsPermutationOf(result'[c].value, twitterPosts'[c] \o rssPosts'[c])
          /\ DOMAIN cache' = {cacheKey}
          /\ cache'[cacheKey] = [data |-> result'[c].value, timestamp |-> now]
          /\ now' - cache'[cacheKey].timestamp < 5 * 60 * 1000]_vars

C3_Witness ==
  \E c \in Calls :
    /\ pc[c] = "done" /\ path[c] = "merge"
    /\ prev.valid /\ prev.path = "merge" /\ prev.value # result[c]
    /\ cache[cacheKey].data = result[c].value
    /\ cache[cacheKey].timestamp >= 5 * 60 * 1000

C5_PlaceholderIsSystemMessages ==
  \A c \in Calls :
    (pc[c] = "done" /\ invoked[c].twitter /\ invoked[c].rss
       /\ twitterPosts[c] = <<>> /\ rssPosts[c] = <<>> /\ cached[c] = <<>>)
    => /\ ~result[c].threw
       /\ result[c].value # <<>>
       /\ \A i \in DOMAIN result[c].value : result[c].value[i].category = "Sistem"

\* C6: whatever the two adapters run into, a finished call has produced a
\* list of posts and has not rejected.
C6_NeverRejects ==
  \A c \in Calls :
    pc[c] = "done"
    => /\ ~result[c].threw
       /\ \A i \in DOMAIN result[c].value :
            result[c].value[i].platform \in Platforms

C6_Witness ==
  \E c \in Calls :
    /\ pc[c] = "done" /\ ~result[c].threw /\ result[c].value # <<>>
    /\ received[c].twitter = <<NetworkException>>
    /\ received[c].rss = <<MalformedJson>>
    /\ ~HasEntry

\* C7: a call that misses the cache invokes both adapters, whatever the
\* first one ran into, and a merged result holds every post that either
\* adapter delivered.
C7_AdapterIndependence ==
  \A c \in Calls :
    /\ pc[c] = "rss" => invoked[c].twitter
    /\ (pc[c] = "done"
          /\ (cached[c] = <<>>
                \/ startedAt[c] - cached[c][1].timestamp >= 5 * 60 * 1000))
       => /\ invoked[c].twitter /\ invoked[c].rss
          /\ (Carried(received[c].twitter) # <<>> \/ Carried(received[c].rss) # <<>>)
             => \A p \in Range(Carried(received[c].twitter))
                           \cup Range(Carried(received[c].rss)) :
                  Count(result[c].value, p) = 1

C7_Witness ==
  \E c \in Calls :
    /\ pc[c] = "done" /\ Failed(received[c].twitter)
    /\ Len(Carried(received[c].rss)) = 2
    /\ Range(result[c].value) = Range(Carried(received[c].rss))

\* C8: a freshly merged list is a permutation of the concatenated adapter
\* outputs, and when the posts are well-formed it is in descending order
\* of the timestamp parsed from date and time.
C8_MergeOrdering ==
  \A c \in Calls :
    (pc[c] = "done" /\ Len(twitterPosts[c]) + Len(rssPosts[c]) > 0)
    => /\ IsPermutationOf(result[c].value, twitterPosts[c] \o rssPosts[c])
       /\ (\A i \in DOMAIN result[c].value : WellFormed(result[c].value[i]))
          => \A i, j \in DOMAIN result[c].value :
               i < j => GetTime(result[c].value[i]) >= GetTime(result[c].value[j])

C8_Witness ==
  \E c \in Calls :
    /\ pc[c] = "done"
    /\ twitterPosts[c] = <<T1, T2>> /\ rssPosts[c] = <<R1, R2>>
    /\ result[c].value = <<R1, T1, R2, T2>>

----------------------------------------------------------------------------
(* Properties of the fetch-rss-feeds function *)

LinearBackoff(n) == [i \in 1 .. n |-> 1000 * i]
Descending(s) ==
  \A i, j \in DOMAIN s : i < j => GetTime(s[i]) >= GetTime(s[j])
FeedPosts == feeds[1].posts \o feeds[2].posts \o feeds[3].posts

\* C9: per feed at most 3 fetch-and-parse attempts are made, none after the
\* first that succeeds, whose posts are returned; failed attempt number k
\* is followed by a wait of k seconds unless it is the third; after three
\* failures the error of the third attempt is raised.
C9_RetryProtocol ==
  /\ Len(tries) <= 3
  /\ \A i \in DOMAIN tries : i < Len(tries) => ~tries[i]
  /\ fnPc = "fetching"
       => /\ Len(tries) < 3
          /\ \A i \in DOMAIN tries : ~tries[i]
          /\ delays = LinearBackoff(Len(tries))
  /\ fnPc = "backoff"
       => /\ Len(tries) \in {1, 2}
          /\ delays = LinearBackoff(Len(tries) - 1)
  /\ finished.feed # 0
       => LET n == Len(finished.tries)
          IN /\ n \in 1 .. 3
             /\ \A i \in 1 .. n - 1 : ~finished.tries[i]
             /\ finished.delays = LinearBackoff(n - 1)
             /\ finished.result = finished.last
             /\ finished.result.threw = ~finished.tries[n]
             /\ finished.result.threw => n = 3

C9_Witness ==
  /\ finished.feed = 2
  /\ finished.tries = <<FALSE, FALSE, FALSE>>
  /\ finished.delays = <<1000, 2000>>
  /\ finished.result = [threw |-> TRUE, value |-> "XML"]
  /\ feeds[1].status = "ok" /\ feeds[1].posts # <<>>
  /\ fnPc = "fetching" /\ feedIdx = 3

\* C10: a feed that exhausts its retries does not keep the remaining feeds
\* from being fetched; the function answers success with exactly the posts
\* of the feeds that succeeded, newest first; and when the Twitter adapter
\* delivers nothing the merged result of getAllPosts is exactly that list.
C10_FeedFailureIsolation ==
  /\ [](fnPc = "responded"
          => /\ \A f \in DOMAIN feeds : feeds[f].status \in {"ok", "failed"}
             /\ \A f \in DOMAIN feeds : feeds[f].status = "failed" => feeds[f].posts = <<>>
             /\ fnResponse # <<>>
             /\ ~fnResponse[1].fetchThrows /\ fnResponse[1].ok
             /\ ~fnResponse[1].jsonThrows
             /\ fnResponse[1].success /\ fnResponse[1].isArray
             /\ IsPermutationOf(fnResponse[1].data, FeedPosts)
             /\ Descending(fnResponse[1].data))
  /\ [][\A c \in Calls :
          (pc[c] = "rss" /\ pc'[c] = "done" /\ received'[c].rss = fnResponse
             /\ twitterPosts[c] = <<>> /\ FeedPosts # <<>>)
          => /\ ~result'[c].threw
             /\ IsPermutationOf(result'[c].value, FeedPosts)
             /\ Descending(result'[c].value)]_vars

C10_Witness ==
  \E c \in Calls :
    /\ pc[c] = "done" /\ path[c] = "merge" /\ twitterPosts[c] = <<>>
    /\ received[c].rss # <<>> /\ received[c].rss[1].success
    /\ Len(result[c].value) = 1
    /\ result[c].value = received[c].rss[1].data
    /\ result[c].value[1].platform = "youtube"

----------------------------------------------------------------------------
(* Properties of a single feed request *)

\* what holds of the timer: while fetch() is awaited in the first version
\* the request is outstanding for at most 10 s, and the abort is a failed
\* attempt that is retried unless it was the third
TimeoutIsARetriedFailure ==
  /\ []((fnVariant = "timeout15" /\ request = "headers") => pendingFor <= 10000)
  /\ [][(request = "headers" /\ pendingFor = 10000 /\ request' = "none"
           /\ lastFetch' = [threw |-> TRUE, value |-> "Timeout"])
        => /\ IF Len(tries) < 2
              THEN /\ fnPc' = "backoff" /\ tries' = Append(tries, FALSE)
                   /\ feedIdx' = feedIdx
              ELSE /\ finished'.tries = <<FALSE, FALSE, FALSE>>
                   /\ finished'.result = [threw |-> TRUE, value |-> "Timeout"]]_vars

\* C11: an attempt of the feed function whose request is outstanding is
\* aborted when 10 seconds have passed, so no attempt is ever outstanding
\* for longer than that.
C11_NoAttemptPendingBeyondTimeout ==
  request # "none" => pendingFor <= 10000

\* C12 as stated: an attempt that got a response from which no post is
\* obtained (an empty body included) is not a failure: no wait, no retry,
\* and the feed is not given up as failed.
C12_NoPostsIsNeverAFailure ==
  /\ fnPc = "backoff" => ~(lastFetch.threw /\ lastFetch.value = "Empty")
  /\ (finished.feed # 0 /\ finished.last.threw /\ finished.last.value = "Empty")
       => ~finished.result.threw

\* C12 amended: an attempt whose response has a body that parses returns
\* the posts obtained from it, none included: it is the feed's last
\* attempt, and with no posts the feed counts as fetched and empty and the
\* loop goes on with the next feed (or responds after the last).  An empty
\* body is a failed attempt like any other.
C12_ZeroItemsIsNotAnError ==
  /\ lastOutcome = "feed"
       => /\ ~lastFetch.threw
          /\ finished.feed # 0 /\ finished.last = lastFetch
          /\ finished.result = lastFetch
          /\ finished.tries[Len(finished.tries)]
          /\ feeds[finished.feed] = [status |-> "ok", posts |-> lastFetch.value]
          /\ IF finished.feed < 3
             THEN fnPc = "fetching" /\ feedIdx = finished.feed + 1
                  /\ tries = <<>> /\ delays = <<>>
             ELSE fnPc = "responded"
  /\ lastOutcome = "Empty"
       => /\ lastFetch.threw /\ lastFetch.value = "Empty"
          /\ IF finished.last = lastFetch
             THEN /\ finished.result.threw /\ Len(finished.tries) = 3
                  /\ feeds[finished.feed].status = "failed"
             ELSE /\ fnPc \in {"backoff", "fetching"}
                  /\ Len(tries) \in {1, 2} /\ ~tries[Len(tries)]

C12_Witness ==
  /\ lastOutcome = "feed" /\ lastFetch.value = <<>>
  /\ finished.feed = 2
  /\ finished.tries = <<FALSE, TRUE>>
  /\ feeds[1].status = "failed"
  /\ feeds[2] = [status |-> "ok", posts |-> <<>>]
  /\ fnPc = "fetching" /\ feedIdx = 3

----------------------------------------------------------------------------
(* Properties of the fetch-twitter-data function *)

\* C13: without a bearer token the function sends no request to the
\* Twitter API, builds no post, and answers HTTP 500 with success = false
\* and empty data.
C13_MissingTokenIsFatal ==
  ~bearerToken
    => /\ twLog = <<>>
       /\ twAllPosts = <<>>
       /\ twPc \in {"idle", "responded"}
       /\ \A a \in DOMAIN twGot : twGot[a] = [status |-> "pending", posts |-> <<>>]
       /\ twPc = "responded"
            => twResponse = <<[status |-> 500, success |-> FALSE, data |-> <<>>]>>

C13_Witness ==
  /\ ~bearerToken
  /\ twPc = "responded"
  /\ twResponse # <<>> /\ twResponse[1].status = 500 /\ ~twResponse[1].success
  /\ twLog = <<>>

\* C14: an account whose lookup or timeline request is answered with a
\* non-success status, or whose lookup carries no id, contributes no post
\* and does not end the loop: the lookup of every account is sent, and the
\* response is a success whose data are exactly the posts built for the
\* accounts, those of the accounts that succeeded all included.
C14_PerHandleSkip ==
  /\ \A a \in DOMAIN twGot : twGot[a].status = "skipped" => twGot[a].posts = <<>>
  /\ (bearerToken /\ twPc = "responded")
       => /\ \A a \in DOMAIN accounts :
               /\ twGot[a].status # "pending"
               /\ Count(twLog, <<"lookup", accounts[a]>>) = 1
               /\ \A i \in DOMAIN twGot[a].posts :
                    Count(twResponse[1].data, twGot[a].posts[i]) = 1
          /\ twResponse[1].status = 200 /\ twResponse[1].success
          /\ IsPermutationOf(twResponse[1].data, twGot[1].posts \o twGot[2].posts)

C14_Witness ==
  /\ twPc = "responded"
  /\ twGot[1].status = "skipped"
  /\ twLog = <<<<"lookup", "CBAdayOfisi">>, <<"lookup", "imamoglu_int">>,
               <<"tweets", "imamoglu_int">>>>
  /\ twGot[2].status = "ok" /\ Len(twGot[2].posts) = 1
  /\ twResponse[1].data = twGot[2].posts

----------------------------------------------------------------------------
(* Properties of the posts *)

\* C15: every post of every list that getAllPosts returns has a content of
\* at most 500 characters.
C15_ContentAtMost500 ==
  \A c \in Calls :
    pc[c] = "done"
      => \A i \in DOMAIN result[c].value : result[c].value[i].len <= 500

----------------------------------------------------------------------------
(* Properties of the consumer functions *)

\* the maximal runs of code units that are not white space
RECURSIVE Tokens(_)
Tokens(t) ==
  LET rest == trimStart(t)
  IN IF rest = <<>> THEN <<>>
     ELSE LET n == CHOOSE k \in 1 .. Len(rest) :
                     /\ \A j \in 1 .. k : rest[j] \notin {" ", "TAB"}
                     /\ k = Len(rest) \/ rest[k + 1] \in {" ", "TAB"}
          IN <<SubSeq(rest, 1, n)>> \o Tokens(SubSeq(rest, n + 1, Len(rest)))

\* the runs of code units between space characters
RECURSIVE SpaceTokens(_)
SpaceTokens(t) ==
  IF t = <<>> THEN <<>>
  ELSE IF Head(t) = " " THEN SpaceTokens(Tail(t))
  ELSE LET n == CHOOSE k \in 1 .. Len(t) :
                  /\ \A j \in 1 .. k : t[j] # " "
                  /\ k = Len(t) \/ t[k + 1] = " "
       IN <<SubSeq(t, 1, n)>> \o SpaceTokens(SubSeq(t, n + 1, Len(t)))

Searchable(post) ==
  toLowerCase(post.content \o <<" ">> \o post.summary \o <<" ">>
                \o join(post.tags, <<" ">>) \o <<" ">> \o post.category)

MatchesAll(post, tokens) ==
  \A i \in DOMAIN tokens : includes(Searchable(post), toLowerCase(tokens[i]))

\* C16 as stated: the query is cut at white space; the result is the posts,
\* in input order, that hold every token; a query without token returns
\* the input list.
C16_SearchTokenizedOnWhitespace ==
  qOp = "searchPosts"
    => qOut = IF Tokens(qArg) = <<>> THEN qPosts
              ELSE SelectSeq(qPosts, LAMBDA post : MatchesAll(post, Tokens(qArg)))

\* C16 amended: the query is cut at space characters only (a tab stays
\* inside its token); a query of white space alone returns the input list.
C16_SearchTokenizedOnSpaces ==
  qOp = "searchPosts"
    => qOut = IF Tokens(qArg) = <<>> THEN qPosts
              ELSE SelectSeq(qPosts, LAMBDA post : MatchesAll(post, SpaceTokens(qArg)))

C16_Witness ==
  /\ qOp = "searchPosts"
  /\ qArg = Chars("METRO park")
  /\ qPosts = <<PostPark, PostMetro>>
  /\ qOut = <<PostPark>>

\* the order of ISO dates, taken from their numbers
DateNumber(d) ==
  LET Digit(i) == CodeOf(d[i]) - 48
  IN (Digit(1) * 1000 + Digit(2) * 100 + Digit(3) * 10 + Digit(4)) * 10000
       + (Digit(6) * 10 + Digit(7)) * 100 + Digit(9) * 10 + Digit(10)

PlatformHolds(post, f) == f.platform = <<>> \/ post.platform = f.platform
CategoryHolds(post, f) == f.category = <<>> \/ post.category = f.category
DateFromHolds(post, f) ==
  f.dateFrom = <<>> \/ DateNumber(f.dateFrom) <= DateNumber(post.date)
DateToHolds(post, f) ==
  f.dateTo = <<>> \/ DateNumber(post.date) <= DateNumber(f.dateTo)
TagsHold(post, f) ==
  f.tags = <<>>
    \/ \E i \in DOMAIN f.tags : \E j \in DOMAIN post.tags :
         includes(toLowerCase(post.tags[j]), toLowerCase(f.tags[i]))

\* C17: with no tag filter, the result of filterPosts is the posts, in
\* input order, for which every dimension that is present holds: platform
\* equal, category equal, dateFrom <= date, date <= dateTo; with no
\* dimension present it is the input list.
C17_FilterByPlatformCategoryDate ==
  (qOp = "filterPosts" /\ qArg.tags = <<>>)
    => /\ qOut = SelectSeq(qPosts, LAMBDA post :
                   /\ PlatformHolds(post, qArg) /\ CategoryHolds(post, qArg)
                   /\ DateFromHolds(post, qArg) /\ DateToHolds(post, qArg))
       /\ (qArg.platform = <<>> /\ qArg.category = <<>>
             /\ qArg.dateFrom = <<>> /\ qArg.dateTo = <<>>) => qOut = qPosts

C17_Witness ==
  /\ qOp = "filterPosts"
  /\ qArg = [platform |-> Chars("twitter"), category |-> <<>>,
             dateFrom |-> Chars("2025-01-15"), dateTo |-> Chars("2025-01-31"),
             tags |-> <<>>]
  /\ qPosts = <<PostIstanbul, PostMetro>>
  /\ qOut = <<PostMetro>>

\* C18: with a tag filter, a post passes iff it passes the other dimensions
\* and some requested tag is, case aside, inside some tag of the post.
C18_FilterByTags ==
  (qOp = "filterPosts" /\ qArg.tags # <<>>)
    => qOut = SelectSeq(qPosts, LAMBDA post :
                /\ PlatformHolds(post, qArg) /\ CategoryHolds(post, qArg)
                /\ DateFromHolds(post, qArg) /\ DateToHolds(post, qArg)
                /\ TagsHold(post, qArg))

C18_Witness ==
  /\ qOp = "filterPosts"
  /\ qArg = [platform |-> <<>>, category |-> <<>>, dateFrom |-> <<>>,
             dateTo |-> <<>>, tags |-> <<Chars("xyz"), Chars("PARK")>>]
  /\ qPosts = <<PostMetro, PostPark>>
  /\ qOut = <<PostPark>>

\* how often a tag occurs in the tag lists of the posts
OccurrenceCount(posts, tag) ==
  Cardinality({ <<i, j>> \in (DOMAIN posts) \X (1 .. 8) :
                  j \in DOMAIN posts[i].tags /\ posts[i].tags[j] = tag })

TagsOf(posts) == UNION { Range(posts[i].tags) : i \in DOMAIN posts }

\* C19: getPopularTags(posts, limit) returns at most limit tags, no tag
\* twice, each a tag of some post, in an order of non-increasing occurrence
\* count, and no tag left out occurs strictly more often than a returned one
C19_PopularTags ==
  qOp = "getPopularTags" =>
    /\ Len(qOut) <= qArg
    /\ \A i, j \in DOMAIN qOut : i # j => qOut[i] # qOut[j]
    /\ Range(qOut) \subseteq TagsOf(qPosts)
    /\ \A i, j \in DOMAIN qOut :
         i < j => OccurrenceCount(qPosts, qOut[i]) >= OccurrenceCount(qPosts, qOut[j])
    /\ \A omitted \in TagsOf(qPosts) \ Range(qOut) : \A i \in DOMAIN qOut :
         OccurrenceCount(qPosts, omitted) <= OccurrenceCount(qPosts, qOut[i])

\* the limit cuts the list, and the tag that occurs twice was met second
C19_Witness ==
  /\ qOp = "getPopularTags"
  /\ qPosts = <<PostPark, PostMetro>>
  /\ qArg = 1
  /\ qOut = <<Chars("Metro")>>

\* the #word tokens of a text, without the #: a # followed by the longest
\* run of letters (Turkish ones included), digits and underscores
HashtagWords(content) ==
  LET class == WordUnits \cup TurkishUnits
  IN { SubSeq(content, i + 1, j) : <<i, j>> \in
         { <<i, j>> \in (DOMAIN content) \X (DOMAIN content) :
             /\ content[i] = "#"
             /\ j > i
             /\ \A k \in i + 1 .. j : content[k] \in class
             /\ j < Len(content) => content[j + 1] \notin class } }

\* the related tags of the table entries whose keyword occurs in the text
\* when case is ignored
RelatedTagsExpected(source, content) ==
  UNION { Range(keywordsOf(source)[k][2]) :
            k \in { k \in DOMAIN keywordsOf(source) :
                      includes(toLowerCase(content),
                               toLowerCase(keywordsOf(source)[k][1])) } }

\* what extractTags does with the example: the keyword with the capital
\* dotted I is not found, and \w alone ends the second hashtag at "Ye"
ExampleAsExtracted ==
  qOp = "extractTags" /\ qArg[2] = Example =>
    qOut = IF qArg[1] = "fetch-rss-feeds"
           THEN <<T("Metro"), T("Ye~s,ilUla~s,~i-m"), T("Ula~s,~i-m")>>
           ELSE <<T("Metro"), T("Ye"), T("Ula~s,~i-m")>>

\* C20: extractTags returns every #word token (Turkish letters included)
\* without its #, and the related tags of every keyword that occurs in the
\* content when case is ignored (as far as the limit of five is not
\* reached); for the example the tags include Metro, YesilUlasim, Istanbul,
\* Sehir and Ulasim (written there with their Turkish letters)
C20_HashtagsAndKeywordTags ==
  qOp = "extractTags" =>
    /\ Len(qOut) < TagLimit =>
         /\ HashtagWords(qArg[2]) \subseteq Range(qOut)
         /\ RelatedTagsExpected(qArg[1], qArg[2]) \subseteq Range(qOut)
    /\ qArg[2] = Example =>
         { T("Metro"), T("Ye~s,ilUla~s,~i-m"), T("~I.stanbul"), T("~S,ehir"),
           T("Ula~s,~i-m") } \subseteq Range(qOut)

\* a category matches a content when one of its keywords is in the content
\* once case is ignored
CategoryMatches(k, content) ==
  \E i \in DOMAIN categories[k][2] :
    includes(toLowerCase(content), toLowerCase(categories[k][2][i]))

\* C21: categorizeContent returns the first category, in the order of the
\* table, one of whose keywords is in the content when case is ignored, and
\* "Genel" when no keyword of any category is; a content with "metro" is
\* classified as the first category of the table (Ulasim)
C21_FirstMatchWins ==
  qOp = "categorizeContent" =>
    /\ \A k \in DOMAIN categories :
         CategoryMatches(k, qArg) /\ (\A h \in 1 .. k - 1 : ~CategoryMatches(h, qArg))
           => qOut = categories[k][1]
    /\ (\A k \in DOMAIN categories : ~CategoryMatches(k, qArg)) => qOut = T("Genel")
    /\ includes(qArg, T("metro")) => qOut = T("Ula~s,~i-m")

\* "sanat" comes after "SPOR" in the content but its category comes first
\* in the table
C21_Witness ==
  /\ qOp = "categorizeContent"
  /\ qArg = T("SPOR ve sanat")
  /\ qOut = T("K~u:lt~u:r")

\* C22: for every input the output of cleanContent has at most 500 units,
\* has no < with a > somewhere after it, and has no two white-space units
\* next to each other
C22_CleanContentPostconditions ==
  qOp = "cleanContent" =>
    /\ Len(qOut) <= 500
    /\ ~ \E i \in DOMAIN qOut :
           qOut[i] = "<" /\ \E j \in i + 1 .. Len(qOut) : qOut[j] = ">"
    /\ ~ \E i \in 1 .. Len(qOut) - 1 :
           qOut[i] \in WhiteSpace /\ qOut[i + 1] \in WhiteSpace

\* a description with markup, entities and double spaces that is cut at the
\* limit
C22_Witness ==
  /\ qOp = "cleanContent"
  /\ qArg = Repeat(T("<i>abcdefgh  &lt;"), 60)
  /\ Len(qOut) = 500
  /\ SubSeq(qOut, 1, 11) = T("abcdefgh ab")

\* the tags in the order they are met: hashtags in text order, then (for a
\* tweet) the names of the annotations, then the related tags of the
\* keywords found, in table order
TagsAsSeen ==
  IF qOp = "extractTags"
  THEN matchHashtags(qArg[2], 1, HashtagUnits(qArg[1]))
       \o relatedTags(qArg[2], keywordsOf(qArg[1]), 1)
  ELSE matchHashtags(qArg[1], 1, HashtagUnits("fetch-rss-feeds"))
       \o annotationNames(qArg[2]) \o relatedTags(qArg[1], keywords, 1)

FirstPlace(seen, tag) ==
  CHOOSE i \in DOMAIN seen : seen[i] = tag /\ \A j \in 1 .. i - 1 : seen[j] # tag

\* C23: the tags of a post have no duplicate, stand in the order in which
\* they were first met (hashtags, annotations of a tweet, keyword tags in
\* table order), and are at most 5 for a feed item and at most 8 for a tweet
C23_TagListShape ==
  qOp \in {"extractTags", "extractTweetTags"} =>
    LET seen == TagsAsSeen
    IN /\ \A i, j \in DOMAIN qOut : i # j => qOut[i] # qOut[j]
       /\ Range(qOut) \subseteq Range(seen)
       /\ \A i, j \in DOMAIN qOut :
            i < j => FirstPlace(seen, qOut[i]) < FirstPlace(seen, qOut[j])
       /\ Len(qOut) <= (IF qOp = "extractTags" THEN 5 ELSE 8)

\* six hashtags and five named annotations, one of them twice: the first
\* eight of the ten tags are left
C23_Witness ==
  /\ qOp = "extractTweetTags"
  /\ qArg[1] = T("#a #b_1 #c #d #e #f")
  /\ qArg[2] = <<T("Metro"), T("Turkey"), <<>>, T("Turkey"), T("Mayor"), T("News")>>
  /\ qOut = <<T("a"), T("b_1"), T("c"), T("d"), T("e"), T("f"), T("Metro"),
              T("Turkey")>>

\* the places (from 0) of the items of a document that survive: the cleaned
\* content has at least 10 characters and the date, if given, is one
Survivors(items) ==
  SelectSeq([i \in DOMAIN items |-> i - 1],
            LAMBDA k : /\ items[k + 1].len >= 10
                       /\ items[k + 1].date # InvalidDate)

FirstOf(s, n) == [i \in 1 .. (IF Len(s) < n THEN Len(s) ELSE n) |-> s[i]]

\* C24: of the items of a document those with a cleaned content of less
\* than 10 characters are left out and the others are not touched by that;
\* a feed contributes the first 15 (20 in the second version) of the
\* surviving items, in document order; a response holds at most 45 (60)
\* posts
C24_PerFeedContribution ==
  /\ [](/\ Len(fnAllPosts) <= (IF fnVariant = "timeout15" THEN 45 ELSE 60)
        /\ \A f \in DOMAIN feeds :
             Len(feeds[f].posts) <= (IF fnVariant = "timeout15" THEN 15 ELSE 20)
        /\ fnResponse # <<>> =>
             Len(fnResponse[1].data) <= (IF fnVariant = "timeout15" THEN 45 ELSE 60))
  /\ [][\A outcome \in CrowdedOutcomes(fnVariant) :
          (outcome.ok /\ lastOutcome' = "feed" /\ ~lastFetch'.threw
             /\ FetchAttempt(outcome))
            => /\ [k \in DOMAIN lastFetch'.value |-> lastFetch'.value[k].id[2]]
                    = FirstOf(Survivors(outcome.items),
                              IF fnVariant = "timeout15" THEN 15 ELSE 20)
               /\ feeds'[feedIdx].posts = lastFetch'.value]_vars

\* three crowded feeds in the first version: 45 posts, each feed without its
\* third and seventh item
C24_Witness ==
  /\ fnVariant = "timeout15"
  /\ fnPc = "responded"
  /\ Len(fnResponse[1].data) = 45
  /\ \A f \in DOMAIN feeds :
       [k \in DOMAIN feeds[f].posts |-> feeds[f].posts[k].id[2]]
         = <<0, 1, 3, 4, 5, 7, 8, 9, 10, 11, 12, 13, 14, 15, 16>>

----------------------------------------------------------------------------
(* Properties of the merge with posts whose timestamp does not parse *)

\* the timestamp of a post when one that does not parse counts as the epoch
EpochZeroTime(p) == IF GetTime(p) = NaN THEN 0 ELSE GetTime(p)

\* C25: in a merged list a post whose date and time do not parse is ordered
\* as if its timestamp were the epoch: it comes after every post with a
\* valid later timestamp, and the posts with valid timestamps stay in
\* descending order
C25_UnparsableSortsAsEpochZero ==
  \A c \in Calls :
    (pc[c] = "done" /\ Len(twitterPosts[c]) + Len(rssPosts[c]) > 0)
    => \A i, j \in DOMAIN result[c].value :
         i < j => EpochZeroTime(result[c].value[i]) >= EpochZeroTime(result[c].value[j])

----------------------------------------------------------------------------
(* Properties of overlapping getAllPosts() calls *)

\* call c returns in this step, from the branch after the two adapters
CompletesIn(c) == pc[c] = "rss" /\ pc'[c] = "done"

\* the merge of call c held at least one post
MergedIn(c) == Len(twitterPosts'[c]) + Len(rssPosts'[c]) > 0

\* C26: with overlapping calls the cache entry is always the list and the
\* time of the non-empty merge that completed last: every such merge writes
\* it, nothing else does, a call with an empty merge leaves the entry of
\* another call alone, the timestamp of the entry never decreases, and when
\* all calls have completed the entry is the one of the latest merge
C26_LastCompletedMergeWins ==
  /\ [][\A c \in OverlapCalls :
          (CompletesIn(c) /\ MergedIn(c))
            => /\ cacheKey \in DOMAIN cache'
               /\ cache'[cacheKey] = Entry(result'[c].value, now)]_vars
  /\ [][\A c \in OverlapCalls :
          (CompletesIn(c) /\ ~MergedIn(c)) => cache' = cache]_vars
  /\ [][cache' # cache
          => \E c \in OverlapCalls : CompletesIn(c) /\ MergedIn(c)]_vars
  /\ [][HasEntry
          => /\ cacheKey \in DOMAIN cache'
             /\ cache'[cacheKey].timestamp >= cache[cacheKey].timestamp]_vars
  /\ []((/\ \A c \in OverlapCalls : pc[c] = "done"
         /\ \E c \in OverlapCalls : path[c] = "merge")
        => \E c \in OverlapCalls :
             /\ path[c] = "merge"
             /\ cache[cacheKey] = Entry(result[c].value, servedAt[c])
             /\ \A d \in OverlapCalls : path[d] = "merge" => servedAt[d] <= servedAt[c])

\* call 2 starts before call 1 has returned and returns after it; both
\* merged, with different lists, and the entry is the one of call 2
C26_Witness ==
  /\ \A c \in OverlapCalls : pc[c] = "done" /\ (c <= 2 => path[c] = "merge")
  /\ startedAt[2] < servedAt[1] /\ servedAt[1] < servedAt[2]
  /\ result[1] # result[2]
  /\ cache[cacheKey] = Entry(result[2].value, servedAt[2])

\* C27: also with overlapping calls, a call returns the placeholder set
\* only if there is no cache entry at the moment it returns, and a call
\* whose fetches all failed returns the cached list if another call has
\* filled the cache in the meantime
C27_PlaceholderOnlyWithoutCache ==
  [][\A c \in OverlapCalls :
       (CompletesIn(c) /\ ~MergedIn(c))
         => /\ path'[c] = "mock" => cacheKey \notin DOMAIN cache
            /\ cacheKey \in DOMAIN cache
                 => result'[c] = Return(cache[cacheKey].data)]_vars

----------------------------------------------------------------------------
(* Properties of calls that follow a failed refresh *)

PlaceholderIds == {"real_content", "system_message"}

\* C28: a refresh that obtains no post leaves the cache as it is (the
\* placeholder set is never an entry, a stale entry keeps its timestamp), so
\* a call that finds the cache absent or expired invokes both adapters, and
\* so does every call that follows a call that fell back, until a merge
\* holds a post
C28_FailedRefreshIsRetried ==
  /\ [][\A c \in Calls : (CompletesIn(c) /\ ~MergedIn(c)) => cache' = cache]_vars
  /\ [](HasEntry => \A i \in DOMAIN cache[cacheKey].data :
                      cache[cacheKey].data[i].id[1] \notin PlaceholderIds)
  /\ [](\A c \in Calls :
          (pc[c] = "done"
             /\ (cached[c] = <<>>
                   \/ startedAt[c] - cached[c][1].timestamp >= 5 * 60 * 1000))
          => invoked[c].twitter /\ invoked[c].rss)
  /\ [](\A c \in Calls :
          (pc[c] = "done" /\ prev.valid /\ prev.path \in {"mock", "stale"})
          => invoked[c].twitter /\ invoked[c].rss /\ path[c] # "hit")

\* two refreshes of an expired entry fail one after the other: both invoke
\* the adapters and both return the entry, which keeps its timestamp
C28_Witness ==
  \E c \in Calls :
    /\ pc[c] = "done" /\ path[c] = "stale"
    /\ prev.valid /\ prev.path = "stale"
    /\ prev.invoked.twitter /\ prev.invoked.rss
    /\ invoked[c].twitter /\ invoked[c].rss
    /\ HasEntry /\ cache[cacheKey].timestamp = 0
    /\ result[c].value = cache[cacheKey].data

\* C29: in every reachable state the cache has no entry or an entry whose
\* data is a list that is not empty, and every completed getAllPosts() call
\* has returned a list that is not empty
C29_NonEmptiness ==
  /\ HasEntry => Len(cache[cacheKey].data) > 0
  /\ \A c \in Calls :
       pc[c] = "done" => ~result[c].threw /\ Len(result[c].value) > 0

\* nothing was ever delivered: no entry, and the call returned the eight
\* sample posts
C29_Witness ==
  \E c \in Calls :
    /\ pc[c] = "done" /\ path[c] = "mock" /\ ~HasEntry
    /\ svcVariant = "socialMediaService.ts"
    /\ received[c].twitter = <<Success(<<>>)>>
    /\ Len(result[c].value) = 8

----------------------------------------------------------------------------
(* Termination *)

\* responses of the Twitter endpoint to the client
TerminationTwitterResponses == {NetworkException, Success(<<T1, T2>>)}

\* what response.text() of a feed can come to
TerminationOutcomes(variant) ==
  { FetchFailed(k) : k \in {"Empty", "XML"} }
    \cup { Fetched(items) : items \in {<<>>, <<ItemA>>} }

\* a request of fetchRSSFeed completes or fails: fetch() rejects, resolves
\* or is aborted by the timer, response.text() resolves
RequestSettles ==
  \/ TimerFires
  \/ FetchRejects
  \/ \E ok \in BOOLEAN : HeadersArrive(ok)
  \/ \E outcome \in TerminationOutcomes(fnVariant) : BodyArrives(outcome)

\* the request of an adapter of getAllPosts completes or fails
TwitterSettles ==
  \E c \in Calls : \E resp \in TerminationTwitterResponses : TwitterDone(c, resp)
RssSettles == \E c \in Calls : E2ERssDone(c)

\* the service calling the feed function, with the steps of each request
TerminationNext ==
  \/ \E c \in Calls : LoadPosts(c)
  \/ TwitterSettles
  \/ E2EFnStart
  \/ SendRequest
  \/ Stall
  \/ RequestSettles
  \/ Backoff
  \/ RssSettles
  \/ \E c \in Calls : LoadPostsDone(c)

\* every request that was sent completes or fails, every timer that was
\* set fires, and code that can run does run; nothing makes the user call
\* getAllPosts, and nothing makes a server stay silent
TerminationFairness ==
  /\ WF_vars(TwitterSettles)
  /\ WF_vars(E2EFnStart)
  /\ WF_vars(SendRequest)
  /\ WF_vars(RequestSettles)
  /\ WF_vars(Backoff)
  /\ WF_vars(RssSettles)

SpecTermination == FeedInit /\ [][TerminationNext]_vars /\ TerminationFairness

\* maxRetries fetchRSSFeed calls for each entry of RSS_FEEDS
AttemptsBound == maxRetries * Len(RSS_FEEDS)

\* the most fetchRSSFeed calls the invocation can have made at its place in
\* the loops: all of the earlier feeds' and the calls of this feed so far
AttemptsAtMost ==
  CASE fnPc = "idle" -> 0
    [] fnPc = "responded" -> AttemptsBound
    [] OTHER -> (feedIdx - 1) * maxRetries + Len(tries)

\* a call of fetchRSSFeed returns or throws in this step
AttemptEnds == request # "none" /\ request' = "none"

\* the handler goes from its response back to waiting for a request
InvocationEnds == fnPc # "idle" /\ fnPc' = "idle"

\* C30: if every request completes or fails, (1) a feed never has more than
\* 3 fetchRSSFeed calls, and every call that ends was at most the third of
\* its feed and moves the invocation forward through at most 9 places,
\* (2) an invocation of the feed function that has started responds,
\* (3) a getAllPosts() call takes each adapter's answer once, the feed
\* function is invoked once for it, and (4) a call that waits for an adapter
\* returns
C30_Termination ==
  /\ [](/\ Len(tries) <= maxRetries
        /\ Len(finished.tries) <= maxRetries
        /\ AttemptsAtMost \in 0 .. AttemptsBound
        /\ AttemptsBound = 9)
  /\ [][AttemptEnds =>
          /\ Len(tries) < maxRetries
          /\ attempt = Len(tries) + 1
          /\ AttemptsAtMost' > AttemptsAtMost]_vars
  /\ [][\A c \in Calls :
          /\ pc[c] = "twitter" /\ pc'[c] # "twitter" =>
               ~invoked[c].twitter /\ invoked'[c].twitter /\ pc'[c] = "rss"
          /\ pc[c] = "rss" /\ pc'[c] # "rss" =>
               ~invoked[c].rss /\ invoked'[c].rss /\ pc'[c] = "done"
          /\ pc[c] = "done" => invoked'[c] = NoCall \/ invoked'[c] = invoked[c]]_vars
  /\ [][InvocationEnds =>
          \E c \in Calls : pc[c] = "rss" /\ pc'[c] = "done"]_vars
  /\ (fnPc \in {"fetching", "backoff"}) ~> (fnPc = "responded")
  /\ \A c \in Calls : (pc[c] \in {"twitter", "rss"}) ~> (pc[c] = "done")

\* every feed failed three times: the handler has its response after nine
\* fetchRSSFeed calls, and the call that waits for it has had its answer
\* from the Twitter adapter
C30_Witness ==
  /\ fnPc = "responded"
  /\ \A f \in DOMAIN RSS_FEEDS : feeds[f].status = "failed"
  /\ finished.feed = Len(RSS_FEEDS)
  /\ Len(finished.tries) = maxRetries
  /\ \E c \in Calls : pc[c] = "rss" /\ invoked[c].twitter /\ ~invoked[c].rss

====
